---- MODULE Spec2Model ----
(***************************************************************************)
(* A model of anvill's memory-access recovery (lib/Analyze.cpp):           *)
(*   - the stack-frame builder of RecoveryMemoryAccesses (SpecFrame),      *)
(*   - the scanner FindMemoryReferences with the constant-base resolver    *)
(*     FindConstantBases (Spec).                                           *)
(*                                                                         *)
(* Machine integers.  TLC's integers are 32 bits wide, so uint64_t and the *)
(* i32 index of the frame access are modelled with scaled widths (U64,     *)
(* U32) that keep the order of the real ones:                              *)
(*     Redzone < U16 (real, 2^16) < U32 (scaled) < U64 (scaled).           *)
(* Every unsigned operation of the code is taken modulo its width.         *)
(***************************************************************************)
EXTENDS Integers, Sequences, FiniteSets, TLC

\* ------------------------------------------------------------------------
\* Integer widths
\* ------------------------------------------------------------------------

\* uint64_t (address_const, running_addr, min/max_stack_address), scaled.
U64 == 2^24

\* The i32 type of the GEP index built for a rewritten access, scaled.
U32 == 2^20

\* uint16_t, the width of Cell::size (real width).
U16 == 65536

\* The redzone subtracted from the lowest stack address.
Redzone == 128

\* Unsigned 64-bit wrap-around.
Wrap64(x) == x % U64

\* static_cast<uint16_t>(...)
Trunc16(x) == x % U16

\* ------------------------------------------------------------------------
\* Types and the data layout
\* ------------------------------------------------------------------------

\* The LLVM types of the model: i8, i32, float, i64, a pointer, and byte
\* arrays [8 x i8], [256 x i8], [65540 x i8], [0 x i8].
TypeSet == {"i8", "i32", "float", "i64", "ptr", "a8", "a256", "a65540",
            "a0"}

\* dl.getTypeAllocSize(type)
getTypeAllocSize(t) ==
  CASE t = "i8"     -> 1
    [] t = "i32"    -> 4
    [] t = "float"  -> 4
    [] t = "i64"    -> 8
    [] t = "ptr"    -> 8
    [] t = "a8"     -> 8
    [] t = "a256"   -> 256
    [] t = "a65540" -> 65540
    [] t = "a0"     -> 0
    [] t = "double"   -> 8
    [] t = "x86_mmx"  -> 8
    [] t = "x86_fp80" -> 16
    [] t = "struct"   -> 16

\* dl.getABITypeAlignment(type)
getABITypeAlignment(t) ==
  CASE t = "i8"     -> 1
    [] t = "i32"    -> 4
    [] t = "float"  -> 4
    [] t = "i64"    -> 8
    [] t = "ptr"    -> 8
    [] t = "a8"     -> 1
    [] t = "a256"   -> 1
    [] t = "a65540" -> 1
    [] t = "a0"     -> 1

\* type->isPointerTy()
isPointerTy(t) == t = "ptr"

\* ------------------------------------------------------------------------
\* Bounds of the model
\* ------------------------------------------------------------------------

\* The functions of the module that own stack cells.
Funcs == {"f1", "f2"}

\* The most stack cells the scanner has collected, over all functions.
MaxCells == 3

\* Stack addresses of the cells: two that overlap for 8-byte cells, and one
\* a full i32 index range above the first.
StackAddrs == {200, 204, 200 + U32}

\* The types of the stack cells of the frame builder's inputs.
FrameTypes == {"i64", "ptr", "a8", "a256"}

\* Values of *program.InitialStackPointer(): below the redzone size, at the
\* lowest cell, above the low cells.
StackPointers == {100, 200, 208}

\* ------------------------------------------------------------------------
\* State
\* ------------------------------------------------------------------------
VARIABLES
  \* RecoveryMemoryAccesses
  stack_cells,        \* [Funcs -> Seq(Cell)], the stack bucket of each function
  sp,                 \* *program.InitialStackPointer()
  popularity,         \* popularity[<<address, type>>]
  pc,                 \* the position in RecoveryMemoryAccesses
  todo,               \* the functions of stack_cells still to be visited
  func,               \* the function of the current iteration
  min_stack_address,
  max_stack_address,
  running_addr,
  types,              \* the entries of the frame type under construction
  idx,                \* the position of the current range-for over cells
  frame,              \* [Funcs -> entries]: the frame type allocated per function
  offset_cache,       \* the addresses that have a cached GEP
  operand,            \* [user -> value]: the operand of each user that held
                      \* the address constant
  \* FindMemoryReferences and FindConstantBases
  bodies,             \* [Funcs -> Seq(instruction)]: the defined functions
  global_cells,       \* [Funcs -> Seq(Cell)], the global bucket of each function
  scan_todo,          \* the functions ForEachFunction has not visited yet
  scan_func,          \* the function FindMemoryReferences is scanning
  ip,                 \* the position of the loop over instructions
  calls,              \* the calls to other functions, for the second sweep
  ci,                 \* the position of the loop over calls
  scan_cell,          \* the Cell being filled in
  bases,              \* [user -> constant], as FindConstantBases fills it
  seen,               \* the values FindConstantBases has seen
  stack,              \* the activations of FindConstantBases, innermost last
  expanded,           \* history: the values inserted into seen, in order
  emitted,            \* history: the cells pushed, with function and site
  \* Program and llvm::Module
  has_stack_pointer,  \* whether program.InitialStackPointer() holds a value
  globals,            \* the global variables of the module: address and size
  insts,              \* the instructions of a block of the module, in order
  insts0,             \* history: the block before the pass
  fresh,              \* the number of instructions ever created in the block
  implemented,        \* the name of an intrinsic that has a body, or NoName
  lower_i,            \* the position in the list of calls of LowerMemOps
  callers,            \* remill::CallersOf(func) still to be visited
  erasing,            \* the callers still to be erased
  erased_used,        \* history: the calls erased while they had uses
  unfolding,          \* the activations of UnfoldConstantExpressions
  nearby,             \* the keys of the map `nearby`: declared functions and
                      \* variables
  \* CallingConvention
  arch_name,          \* remill::GetArchName(arch->Triple())
  parameter_register_constraints,
  return_register_constraints,
  function,           \* the llvm::Function whose signature is allocated
  fdecl,              \* the declaration under construction
  reserved,           \* the vector `reserved` (`allocated` in BindParameters)
  arg_i,              \* the position of the loop over arguments or elements
  reg,                \* what the latest TryRegisterAllocate returned
  stack_offset,
  fatal               \* the message of LOG(FATAL), once the program aborted

builder_vars == <<sp, popularity, todo, func, min_stack_address,
                  max_stack_address, running_addr, types, idx, frame,
                  offset_cache, operand>>

scanner_vars == <<bodies, global_cells, scan_todo, scan_func, ip, calls, ci,
                  scan_cell, bases, seen, stack, expanded, emitted>>

lower_vars == <<insts, insts0, fresh, implemented, lower_i, callers, erasing,
                erased_used>>

block_vars == <<has_stack_pointer, globals, lower_vars, unfolding>>

convention_vars == <<arch_name, parameter_register_constraints,
                     return_register_constraints, function, fdecl, reserved,
                     arg_i, reg, stack_offset, fatal>>

module_vars == <<block_vars, nearby, convention_vars>>

vars == <<stack_cells, pc, builder_vars, scanner_vars, module_vars>>

\* No value: an unused operand, no function, no cell.
NoValue == <<"none", 0>>
NoCell == [type |-> "none"]

\* The scanner's variables once FindMemoryReferences has returned for every
\* function (its locals are gone).
ScannerIdle ==
  /\ bodies = [f \in {"f1", "f2"} |-> <<>>]
  /\ global_cells = [f \in {"f1", "f2"} |-> <<>>]
  /\ scan_todo = {}
  /\ scan_func = "none"
  /\ ip = 0
  /\ calls = <<>>
  /\ ci = 0
  /\ scan_cell = NoCell
  /\ bases = <<>>
  /\ seen = {}
  /\ stack = <<>>
  /\ expanded = <<>>
  /\ emitted = <<>>

\* The keys of `nearby`: the address of a declared function, of a declared
\* variable.
FunctionKey(f) == <<"function", f>>
VariableKey(g) == <<"variable", g.address>>

\* `nearby` once ForEachFunction and ForEachVariable have returned.
NearbyOf(fs, gs) == {FunctionKey(f) : f \in fs} \cup {VariableKey(g) : g \in gs}

\* No calling convention is constructed.
NoConvention ==
  /\ arch_name = "none"
  /\ parameter_register_constraints = <<>>
  /\ return_register_constraints = <<>>
  /\ function = <<>>
  /\ fdecl = <<>>
  /\ reserved = <<>>
  /\ arg_i = 0
  /\ reg = <<"none", 0>>
  /\ stack_offset = 0
  /\ fatal = "none"

\* The program and the module where a specification does not vary them: the
\* program has an initial stack pointer.
NoBlock ==
  /\ insts = <<>>
  /\ insts0 = <<>>
  /\ fresh = 0
  /\ implemented = <<>>
  /\ lower_i = 0
  /\ callers = {}
  /\ erasing = {}
  /\ erased_used = {}
  /\ unfolding = <<>>

ModuleIdle ==
  /\ has_stack_pointer = TRUE
  /\ globals = {}
  /\ NoBlock

\* The frame builder's variables before RecoveryMemoryAccesses reaches it.
BuilderIdle ==
  /\ sp = 0
  /\ popularity = <<>>
  /\ todo = {}
  /\ func = "none"
  /\ min_stack_address = 0
  /\ max_stack_address = 0
  /\ running_addr = 0
  /\ types = <<>>
  /\ idx = 0
  /\ frame = [f \in {"f1", "f2"} |-> <<>>]
  /\ offset_cache = {}
  /\ operand = <<>>

\* ------------------------------------------------------------------------
\* Cells
\* ------------------------------------------------------------------------

\* The size the scanner records in a cell:
\*   cell.size = static_cast<uint16_t>(dl.getTypeAllocSize(cell.type))
CellSize(t) == Trunc16(getTypeAllocSize(t))

\* A cell of the access at `user` to the constant `addr` with type `t`.
\* address_val (the llvm::ConstantInt) is identified with its value.
MakeCell(t, user, addr, ld, st, vol, atm) ==
  [type |-> t, user |-> user, address_const |-> addr, size |-> CellSize(t),
   is_load |-> ld, is_store |-> st, is_volatile |-> vol, is_atomic |-> atm]

\* The users of a function's k-th collected cell.
UserOf(f, k) == <<f, k>>

\* ------------------------------------------------------------------------
\* Sequences
\* ------------------------------------------------------------------------
RECURSIVE SumSeq(_)
SumSeq(s) == IF s = <<>> THEN 0 ELSE Head(s) + SumSeq(Tail(s))

Range(s) == {s[i] : i \in DOMAIN s}

Min2(a, b) == IF a < b THEN a ELSE b
Max2(a, b) == IF a > b THEN a ELSE b

\* The permutations of 1..n.
Perms(n) == {p \in [1..n -> 1..n] : \A i, j \in 1..n : p[i] = p[j] => i = j}

\* ------------------------------------------------------------------------
\* RecoveryMemoryAccesses: popularity and the ordering of cells
\* ------------------------------------------------------------------------

\* for (auto &cell : cells) popularity[cell.address_const][cell.type] += 1;
\* over the stack cells of every function.
CountPopularity(cells_of) ==
  [k \in StackAddrs \X TypeSet |->
     Cardinality({<<f, i>> \in Funcs \X (1..MaxCells + 1) :
                    /\ i \in DOMAIN cells_of[f]
                    /\ cells_of[f][i].address_const = k[1]
                    /\ cells_of[f][i].type = k[2]})]

\* popularity[address][type], 0 for an entry operator[] creates.
Pop(addr, t) ==
  IF <<addr, t>> \in DOMAIN popularity THEN popularity[<<addr, t>>] ELSE 0

\* A comparator that orders equal addresses by ascending size.
order_cells_ascending_size(a, b) ==
  IF a.address_const < b.address_const THEN TRUE
  ELSE IF a.address_const > b.address_const THEN FALSE
  ELSE IF a.size = b.size THEN
    IF a.type = b.type THEN FALSE
    ELSE IF getABITypeAlignment(a.type) = getABITypeAlignment(b.type)
         THEN Pop(a.address_const, a.type) > Pop(a.address_const, b.type)
         ELSE getABITypeAlignment(a.type) > getABITypeAlignment(b.type)
  ELSE a.size < b.size

\* The lambda order_cells.
order_cells(a, b) ==
  IF a.address_const < b.address_const THEN TRUE
  ELSE IF a.address_const > b.address_const THEN FALSE
  ELSE IF a.size = b.size THEN
    IF a.type = b.type THEN FALSE
    ELSE IF getABITypeAlignment(a.type) = getABITypeAlignment(b.type)
         THEN Pop(a.address_const, a.type) > Pop(a.address_const, b.type)
         ELSE getABITypeAlignment(a.type) > getABITypeAlignment(b.type)
  ELSE a.size > b.size

\* The results std::sort(cells.begin(), cells.end(), order_cells) can leave:
\* the permutations of cells in which no element is ordered before an earlier
\* one.  std::sort is not stable: equivalent cells end in any order.
SortedBy(cells) ==
  {s \in {[i \in 1..Len(cells) |-> cells[p[i]]] : p \in Perms(Len(cells))} :
     \A i, j \in 1..Len(cells) : i < j => ~order_cells(s[j], s[i])}

\* ------------------------------------------------------------------------
\* RecoveryMemoryAccesses: the extent of the frame
\* ------------------------------------------------------------------------

\* min_stack_address after the loop over cells.
RECURSIVE MinStackAddress(_, _)
MinStackAddress(cells, m) ==
  IF cells = <<>> THEN m
  ELSE MinStackAddress(Tail(cells), Min2(m, Head(cells).address_const))

\* max_stack_address after the loop over cells.
RECURSIVE MaxStackAddress(_, _)
MaxStackAddress(cells, m) ==
  IF cells = <<>> THEN m
  ELSE MaxStackAddress(Tail(cells),
         Max2(m, Wrap64(Head(cells).address_const + Head(cells).size)))

\* uint64_t running_addr = min_stack_address - 128;
InitialRunningAddr(m) == Wrap64(m - Redzone)

\* A padding that leaves the cursor where it was.
PadTo_stay(r, addr) == r

\* running_addr = cell.address_const; (after the padding entry is pushed)
PadTo(r, addr) == addr

\* A cursor that moves up past the cell.
AdvanceRunningAddr_up(r, cell) == Wrap64(r + cell.size)

\* running_addr -= cell.size;
AdvanceRunningAddr(r, cell) == Wrap64(r - cell.size)

\* llvm::ConstantInt::get(i32_type, cell.address_const - min_stack_address):
\* the value is cut to the 32 bits of the index type.
GepIndex(addr, m) == Wrap64(addr - m) % U32

\* The byte offset a GEP with that i32 index addresses: the index is
\* sign-extended to the pointer width.
GepOffset(index) == IF index >= U32 \div 2 THEN index - U32 ELSE index

\* Entries of a frame type: the byte array [len x i8] of a padding, or the
\* type of a cell.  `at` records running_addr when the entry was pushed and
\* `cell` the position of the cell among the sorted cells.
PadEntry(len, r) == [kind |-> "pad", len |-> len, type |-> "i8", at |-> r, cell |-> 0]
TypeEntry(t, r, i) == [kind |-> "cell", len |-> 1, type |-> t, at |-> r, cell |-> i]

\* The storage size of an entry.
EntrySize(e) == e.len * getTypeAllocSize(e.type)

\* The sum of the entry sizes of a frame type.
FrameSize(es) == SumSeq([i \in DOMAIN es |-> EntrySize(es[i])])

\* The byte offset of entry k from the start of the frame.
EntryOffset(es, k) == SumSeq([i \in 1..(k - 1) |-> EntrySize(es[i])])

\* ------------------------------------------------------------------------
\* Init of the frame builder: the buckets as the scanner left them
\* ------------------------------------------------------------------------

\* The cells of a bucket in the order they were collected.  The order of
\* collection is irrelevant to std::sort, so one order per multiset of cells
\* is drawn: descending by (address, type).
CellKinds == StackAddrs \X FrameTypes

KindGE(a, b) ==
  \/ a[1] > b[1]
  \/ a[1] = b[1] /\ getTypeAllocSize(a[2]) < getTypeAllocSize(b[2])
  \/ a[1] = b[1] /\ getTypeAllocSize(a[2]) = getTypeAllocSize(b[2])
       /\ getABITypeAlignment(a[2]) < getABITypeAlignment(b[2])
  \/ a[1] = b[1] /\ getTypeAllocSize(a[2]) = getTypeAllocSize(b[2])
       /\ getABITypeAlignment(a[2]) = getABITypeAlignment(b[2])
       /\ (isPointerTy(a[2]) => isPointerTy(b[2]))

Buckets(n) ==
  {ks \in [1..n -> CellKinds] : \A i \in 1..(n - 1) : KindGE(ks[i], ks[i + 1])}

BucketOf(f, ks) ==
  [i \in DOMAIN ks |->
     MakeCell(ks[i][2], UserOf(f, i), ks[i][1], FALSE, FALSE, FALSE, FALSE)]

\* The users of all cells, each still holding its address constant.
InitialOperands(cells_of) ==
  [u \in {UserOf(f, i) : <<f, i>> \in
            {x \in Funcs \X (1..MaxCells + 1) : x[2] \in DOMAIN cells_of[x[1]]}} |->
     [kind |-> "const", value |-> cells_of[u[1]][u[2]].address_const,
      func |-> "none", index |-> 0]]

\* The keys of the unordered_map stack_cells: operator[] creates a key when
\* the first cell of a function is pushed.
Keys(cells_of) == {f \in Funcs : cells_of[f] # <<>>}

FrameStart ==
  /\ \E n1, n2 \in 0..MaxCells :
       /\ n1 + n2 <= MaxCells
       /\ \E k1 \in Buckets(n1), k2 \in Buckets(n2) :
            stack_cells = [f \in Funcs |->
                             IF f = "f1" THEN BucketOf(f, k1) ELSE BucketOf(f, k2)]
  /\ sp \in StackPointers
  /\ popularity = <<>>
  /\ pc = "popularity"
  /\ todo = Keys(stack_cells)
  /\ func = "none"
  /\ min_stack_address = 0
  /\ max_stack_address = 0
  /\ running_addr = 0
  /\ types = <<>>
  /\ idx = 0
  /\ frame = [f \in Funcs |-> <<>>]
  /\ offset_cache = {}
  /\ operand = InitialOperands(stack_cells)
  /\ ScannerIdle

InitFrame ==
  /\ FrameStart
  /\ ModuleIdle
  /\ nearby = NearbyOf(Funcs, globals)
  /\ NoConvention

\* ------------------------------------------------------------------------
\* Actions of the frame builder
\* ------------------------------------------------------------------------

\* Lines 501-507: the popularity table of the stack cells of all functions.
BuildPopularity ==
  /\ pc = "popularity"
  /\ popularity' = CountPopularity(stack_cells)
  /\ pc' = IF todo = {} THEN "globals" ELSE "frames"
  /\ UNCHANGED <<stack_cells, sp, todo, func, min_stack_address,
                 max_stack_address, running_addr, types, idx, frame,
                 offset_cache, operand>>
  /\ UNCHANGED <<scanner_vars, module_vars>>

\* Lines 537-556: the next function of stack_cells (an unordered_map: any
\* order), its cells sorted, the extent of its frame and the cursor.
BeginFrame(f) ==
  /\ pc = "frames"
  /\ f \in todo
  /\ func' = f
  /\ \E s \in SortedBy(stack_cells[f]) :
       stack_cells' = [stack_cells EXCEPT ![f] = s]
  /\ min_stack_address' = MinStackAddress(stack_cells[f], sp)
  /\ max_stack_address' = MaxStackAddress(stack_cells[f], sp)
  /\ running_addr' = InitialRunningAddr(min_stack_address')
  /\ types' = <<>>
  /\ idx' = 1
  /\ pc' = "layout"
  /\ UNCHANGED <<sp, popularity, todo, frame, offset_cache, operand>>
  /\ UNCHANGED <<scanner_vars, module_vars>>

\* Lines 558-574: one iteration of the layout loop.
LayoutStep ==
  /\ pc = "layout"
  /\ idx <= Len(stack_cells[func])
  /\ LET cell == stack_cells[func][idx] IN
       IF running_addr < cell.address_const THEN
         LET padding_bytes == cell.address_const - running_addr IN
           /\ types' = types \o
                <<PadEntry(padding_bytes, running_addr),
                  TypeEntry(cell.type, PadTo(running_addr, cell.address_const), idx)>>
           /\ running_addr' =
                AdvanceRunningAddr(PadTo(running_addr, cell.address_const), cell)
       ELSE IF running_addr > cell.address_const THEN
         \* SKIPPING
         /\ UNCHANGED <<types, running_addr>>
       ELSE
         /\ types' = Append(types, TypeEntry(cell.type, running_addr, idx))
         /\ running_addr' = AdvanceRunningAddr(running_addr, cell)
  /\ idx' = idx + 1
  /\ UNCHANGED <<stack_cells, sp, popularity, pc, todo, func,
                 min_stack_address, max_stack_address, frame, offset_cache,
                 operand>>
  /\ UNCHANGED <<scanner_vars, module_vars>>

\* Lines 577-582: the frame type, its alloca and an empty offset_cache.
BuildFrame ==
  /\ pc = "layout"
  /\ idx > Len(stack_cells[func])
  /\ frame' = [frame EXCEPT ![func] = types]
  /\ offset_cache' = {}
  /\ idx' = 1
  /\ pc' = "rewrite"
  /\ UNCHANGED <<stack_cells, sp, popularity, todo, func, min_stack_address,
                 max_stack_address, running_addr, types, operand>>
  /\ UNCHANGED <<scanner_vars, module_vars>>

\* Lines 584-601: one iteration of the rewriting loop.  The uses of the
\* address constant are those operands that still hold it; the one whose user
\* is cell.user is set to ptrtoint(gep i8, i8_frame, index).
RewriteStep ==
  /\ pc = "rewrite"
  /\ idx <= Len(stack_cells[func])
  /\ LET cell == stack_cells[func][idx]
         use  == operand[cell.user] IN
       IF use.kind = "const" /\ use.value = cell.address_const THEN
         /\ offset_cache' = offset_cache \cup {cell.address_const}
         /\ operand' = [operand EXCEPT ![cell.user] =
                          [kind |-> "ptrtoint_gep", value |-> cell.address_const,
                           func |-> func,
                           index |-> GepIndex(cell.address_const,
                                              min_stack_address)]]
       ELSE UNCHANGED <<offset_cache, operand>>
  /\ idx' = idx + 1
  /\ UNCHANGED <<stack_cells, sp, popularity, pc, todo, func,
                 min_stack_address, max_stack_address, running_addr, types,
                 frame>>
  /\ UNCHANGED <<scanner_vars, module_vars>>

\* Line 602: the end of the iteration for one function.
EndFrame ==
  /\ pc = "rewrite"
  /\ idx > Len(stack_cells[func])
  /\ todo' = todo \ {func}
  /\ pc' = IF todo' = {} THEN "globals" ELSE "frames"
  /\ UNCHANGED <<stack_cells, sp, popularity, func, min_stack_address,
                 max_stack_address, running_addr, types, idx, frame,
                 offset_cache, operand>>
  /\ UNCHANGED <<scanner_vars, module_vars>>

NextFrame ==
  \/ BuildPopularity
  \/ \E f \in Funcs : BeginFrame(f)
  \/ LayoutStep
  \/ BuildFrame
  \/ RewriteStep
  \/ EndFrame

SpecFrame == InitFrame /\ [][NextFrame]_vars

\* ------------------------------------------------------------------------
\* Properties of the frame builder
\* ------------------------------------------------------------------------

\* The functions whose frame has been built and whose cells were rewritten.
Processed == {f \in Keys(stack_cells) : f \notin todo /\ pc # "popularity"}

\* min_address of a function: the minimum of the initial stack pointer and
\* the addresses of its stack cells.
MinAddressOf(f) == MinStackAddress(stack_cells[f], sp)

\* max_address of a function: the maximum of the initial stack pointer and
\* address + size over its stack cells.
MaxAddressOf(f) == MaxStackAddress(stack_cells[f], sp)

\* C1: after stack-frame rewriting, the use of every stack cell with address
\* A is a pointer-to-integer conversion of a byte-indexed access into the
\* frame of the cell's function at byte offset exactly A - min_address;
\* the difference of two rewritten offsets is the difference of the
\* addresses (so distinct addresses get distinct offsets).
C1_RewrittenOffsetExact ==
  \A f \in Processed :
    \A i \in DOMAIN stack_cells[f] :
      LET c == stack_cells[f][i]
          o == operand[c.user] IN
        /\ o.kind = "ptrtoint_gep"
        /\ o.func = f
        /\ GepOffset(o.index) = c.address_const - MinAddressOf(f)
        /\ \A j \in DOMAIN stack_cells[f] :
             LET d == stack_cells[f][j]
                 q == operand[d.user] IN
               GepOffset(o.index) - GepOffset(q.index)
                 = c.address_const - d.address_const

\* C2: the rewritten access range [A - min_address, A - min_address + S) of
\* every stack cell lies inside the frame allocation of its function.
C2_AccessInsideFrame ==
  \A f \in Processed :
    \A i \in DOMAIN stack_cells[f] :
      LET c == stack_cells[f][i] IN
        (c.address_const - MinAddressOf(f)) + c.size <= FrameSize(frame[f])

\* C3: the entries of a frame cover exactly [min_address - 128, max_address]:
\* their sizes sum to max_address - (min_address - 128), and the typed entry
\* of a cell at address A begins A - (min_address - 128) bytes into the
\* frame.
C3_FrameCoversRange ==
  \A f \in Processed :
    /\ FrameSize(frame[f]) = MaxAddressOf(f) - (MinAddressOf(f) - Redzone)
    /\ \A k \in DOMAIN frame[f] :
         frame[f][k].kind = "cell" =>
           EntryOffset(frame[f], k)
             = stack_cells[f][frame[f][k].cell].address_const
                 - (MinAddressOf(f) - Redzone)

\* C4: during the layout walk the addresses of the sorted cells are
\* non-decreasing, the cursor equals a cell's address when its type is
\* emitted, and a shortfall is filled by exactly one byte-array padding
\* entry of length (cell address - cursor) right before the cell's entry.
C4_CursorMeetsCell ==
  pc \in {"layout", "rewrite"} =>
    /\ \A i, j \in DOMAIN stack_cells[func] :
         i < j => stack_cells[func][i].address_const
                    <= stack_cells[func][j].address_const
    /\ \A k \in DOMAIN types :
         LET e == types[k] IN
           /\ e.kind = "cell" =>
                e.at = stack_cells[func][e.cell].address_const
           /\ e.kind = "pad" =>
                /\ k + 1 \in DOMAIN types
                /\ types[k + 1].kind = "cell"
                /\ e.at < stack_cells[func][types[k + 1].cell].address_const
                /\ e.len = stack_cells[func][types[k + 1].cell].address_const - e.at

\* C4 witness: two cells at different addresses have been emitted, each
\* behind its padding.
C4_Witness ==
  /\ pc = "layout"
  /\ Len(types) = 4
  /\ types[1].kind = "pad" /\ types[3].kind = "pad"
  /\ stack_cells[func][types[2].cell].address_const
       < stack_cells[func][types[4].cell].address_const

\* The stack cells of all functions.
AllCells == UNION {Range(stack_cells[f]) : f \in Funcs}

\* Lexicographic order: ascending address, then descending size, then
\* descending ABI alignment, then descending popularity at the address.
KeyBefore(a, b) ==
  \/ a.address_const < b.address_const
  \/ /\ a.address_const = b.address_const
     /\ \/ a.size > b.size
        \/ /\ a.size = b.size
           /\ \/ getABITypeAlignment(a.type) > getABITypeAlignment(b.type)
              \/ /\ getABITypeAlignment(a.type) = getABITypeAlignment(b.type)
                 /\ Pop(a.address_const, a.type) > Pop(a.address_const, b.type)

\* The same order with pointer-typed cells before non-pointer cells of the
\* same address and size, ahead of alignment and popularity.
KeyBeforePointerFirst(a, b) ==
  \/ a.address_const < b.address_const
  \/ /\ a.address_const = b.address_const
     /\ \/ a.size > b.size
        \/ /\ a.size = b.size
           /\ a.type # b.type
           /\ \/ isPointerTy(a.type) /\ ~isPointerTy(b.type)
              \/ /\ isPointerTy(a.type) = isPointerTy(b.type)
                 /\ KeyBefore(a, b)

\* C5 (as amended): order_cells orders by ascending address, then descending
\* size, then higher ABI alignment, then higher popularity of the type at
\* the address; cells of equal address, size and type are equivalent; whether
\* a type is a pointer plays no part.
C5_OrderCellsKey ==
  pc # "popularity" =>
    \A a, b \in AllCells :
      /\ order_cells(a, b) = KeyBefore(a, b)
      /\ (a.address_const = b.address_const /\ a.size = b.size /\ a.type = b.type)
           => (~order_cells(a, b) /\ ~order_cells(b, a))

\* C5 (as stated): as above, but for equal address and size pointer-typed
\* cells come before non-pointer cells, ahead of alignment and popularity.
C5_OrderCellsPointerFirst ==
  pc # "popularity" =>
    \A a, b \in AllCells : order_cells(a, b) = KeyBeforePointerFirst(a, b)

\* C5 witness: the sorted cells of a function hold, at one address, a larger
\* cell before a smaller one, and two cells of one size ordered by alignment
\* or by popularity.
C5_Witness ==
  /\ pc = "layout"
  /\ \E i, j \in DOMAIN stack_cells[func] :
       /\ i < j
       /\ stack_cells[func][i].address_const = stack_cells[func][j].address_const
       /\ stack_cells[func][i].size = stack_cells[func][j].size
       /\ order_cells(stack_cells[func][i], stack_cells[func][j])
       /\ getABITypeAlignment(stack_cells[func][i].type)
            = getABITypeAlignment(stack_cells[func][j].type)
       /\ Pop(stack_cells[func][i].address_const, stack_cells[func][i].type)
            > Pop(stack_cells[func][j].address_const, stack_cells[func][j].type)

\* ========================================================================
\* FindMemoryReferences and FindConstantBases
\* ========================================================================

\* ------------------------------------------------------------------------
\* The IR of a function
\* ------------------------------------------------------------------------
\* A value is a constant integer <<"const", c>>, the non-constant leaf
\* <<"arg", 0>> (an argument of the lifted function), or the instruction
\* <<"inst", i>> at position i of the function.  An instruction is a record
\*   [op, a, b, callee, ty]
\* with its opcode, its operands a and b (for a PHI its two incoming values;
\* for a call to a memory intrinsic a is argument 1, the address; for another
\* call a is its argument), the name of the called function, and ty, the
\* accessed type that GetDownstreamType / GetUpstreamType /
\* GetUpstreamTypeFromPointer / getPointerElementType yield for it.

Const(c) == <<"const", c>>
Arg == <<"arg", 0>>
InstV(i) == <<"inst", i>>

IsConstantInt(v) == v[1] = "const"
IsInstruction(v) == v[1] = "inst"

\* Names are sequences of segments; a prefix is a leading run of segments.
NoName == <<>>
kRemill == <<"__remill">>
kReadMemory == <<"__remill", "_read_memory_">>
kWriteMemory == <<"__remill", "_write_memory_">>
kCompareExchange == <<"__remill", "_compare_exchange_">>
kFetchAnd == <<"__remill", "_fetch_and_">>
kReadIoPort == <<"__remill", "_read_io_port_">>
kWriteIoPort == <<"__remill", "_write_io_port_">>

\* A prefix test that compares the first segment only.
startswith_first(name, prefix) ==
  /\ Len(prefix) <= Len(name)
  /\ name[1] = prefix[1]

\* llvm::StringRef::startswith
startswith(name, prefix) ==
  /\ Len(prefix) <= Len(name)
  /\ \A k \in 1..Len(prefix) : name[k] = prefix[k]

Instr(op, a, b, callee, ty) ==
  [op |-> op, a |-> a, b |-> b, callee |-> callee, ty |-> ty]

\* The opcodes of the model.
CastOps == {"GetElementPtr", "BitCast", "IntToPtr", "PtrToInt", "ZExt", "SExt", "Trunc"}
BinaryOps == {"Sub", "Add", "And", "Or", "Mul", "Shl", "Xor"}

\* Whether a value is pointer-typed ("ptr") or an integer ("int").
RECURSIVE TypeClass(_, _)
TypeClass(body, v) ==
  IF ~IsInstruction(v) THEN "int"
  ELSE LET ins == body[v[2]] IN
    CASE ins.op \in {"IntToPtr", "GetElementPtr"} -> "ptr"
      [] ins.op = "BitCast" -> TypeClass(body, ins.a)
      [] OTHER -> "int"

\* Value::stripPointerCasts() of a pointer: through pointer bitcasts.
RECURSIVE stripPointerCasts(_, _)
stripPointerCasts(body, v) ==
  IF IsInstruction(v) /\ body[v[2]].op = "BitCast"
  THEN stripPointerCasts(body, body[v[2]].a)
  ELSE v

\* ------------------------------------------------------------------------
\* FindConstantBases
\* ------------------------------------------------------------------------

\* A switch that also follows both operands of a multiplication.
FollowedOperands_mul(ins) ==
  CASE ins.op = "PHI" -> <<ins.a, ins.b>>
    [] ins.op \in {"GetElementPtr", "BitCast", "IntToPtr", "PtrToInt",
                   "ZExt", "SExt"} -> <<ins.a>>
    [] ins.op = "Sub" -> <<ins.a>>
    [] ins.op \in {"Add", "And", "Or", "Mul"} -> <<ins.a, ins.b>>
    [] OTHER -> <<>>

\* The switch over inst->getOpcode(): the operands FindConstantBases recurses
\* into, in order.
FollowedOperands(ins) ==
  CASE ins.op = "PHI" -> <<ins.a, ins.b>>
    [] ins.op \in {"GetElementPtr", "BitCast", "IntToPtr", "PtrToInt",
                   "ZExt", "SExt"} -> <<ins.a>>
    [] ins.op = "Sub" -> <<ins.a>>
    [] ins.op \in {"Add", "And", "Or"} -> <<ins.a, ins.b>>
    [] OTHER -> <<>>

\* A recursion that passes the user it was given on to the operands.
RecursionUser_outer(user, inst) == user

\* The user argument of a recursive call: the PHI node or instruction whose
\* operand is searched.
RecursionUser(user, inst) == inst

\* A search that takes every value for new.
AlreadySeen_never(val) == FALSE

\* seen.count(val)
AlreadySeen(val) == val \in seen

\* An activation of FindConstantBases(user, val, bases, seen).  next = 0
\* before its body has run; afterwards the position of the next operand to
\* recurse into.
Activation(user, val) == [user |-> user, val |-> val, next |-> 0]

Top == stack[Len(stack)]
Returned == SubSeq(stack, 1, Len(stack) - 1)
Body == bodies[scan_func]
Resolving == pc \in {"resolve_inst", "resolve_arg"} /\ stack # <<>>

\* bases[user] = const_val
SetBase(user, c) ==
  [u \in DOMAIN bases \cup {user} |-> IF u = user THEN c ELSE bases[u]]

\* Lines 97-99: the value was seen; return.
ResolveSeen ==
  /\ Resolving
  /\ Top.next = 0
  /\ AlreadySeen(Top.val)
  /\ stack' = Returned
  /\ UNCHANGED <<bases, seen, expanded>>

\* Lines 101-104: a constant integer is recorded for the user.
ResolveConstant ==
  /\ Resolving
  /\ Top.next = 0
  /\ ~AlreadySeen(Top.val)
  /\ IsConstantInt(Top.val)
  /\ seen' = seen \cup {Top.val}
  /\ expanded' = Append(expanded, Top.val)
  /\ bases' = SetBase(Top.user, Top.val[2])
  /\ stack' = Returned

\* Lines 106-107: an instruction; its opcode decides the recursion.
ResolveInstruction ==
  /\ Resolving
  /\ Top.next = 0
  /\ ~AlreadySeen(Top.val)
  /\ IsInstruction(Top.val)
  /\ seen' = seen \cup {Top.val}
  /\ expanded' = Append(expanded, Top.val)
  /\ stack' = [stack EXCEPT ![Len(stack)].next = 1]
  /\ UNCHANGED bases

\* Lines 103-106: neither a constant integer nor an instruction.
ResolveOther ==
  /\ Resolving
  /\ Top.next = 0
  /\ ~AlreadySeen(Top.val)
  /\ ~IsConstantInt(Top.val)
  /\ ~IsInstruction(Top.val)
  /\ seen' = seen \cup {Top.val}
  /\ expanded' = Append(expanded, Top.val)
  /\ stack' = Returned
  /\ UNCHANGED bases

\* Lines 108-131: the next recursive call of the switch.
ResolveRecurse ==
  /\ Resolving
  /\ Top.next >= 1
  /\ LET ins == Body[Top.val[2]]
         ops == FollowedOperands(ins) IN
       /\ Top.next <= Len(ops)
       /\ stack' = Append([stack EXCEPT ![Len(stack)].next = Top.next + 1],
                          Activation(RecursionUser(Top.user, Top.val[2]),
                                     ops[Top.next]))
  /\ UNCHANGED <<bases, seen, expanded>>

\* Lines 132-136: the switch is done; return.
ResolveReturn ==
  /\ Resolving
  /\ Top.next >= 1
  /\ Top.next > Len(FollowedOperands(Body[Top.val[2]]))
  /\ stack' = Returned
  /\ UNCHANGED <<bases, seen, expanded>>

FindConstantBases ==
  /\ \/ ResolveSeen
     \/ ResolveConstant
     \/ ResolveInstruction
     \/ ResolveOther
     \/ ResolveRecurse
     \/ ResolveReturn
  /\ UNCHANGED <<stack_cells, pc, builder_vars, module_vars, bodies, global_cells,
                 scan_todo, scan_func, ip, calls, ci, scan_cell, emitted>>

\* ------------------------------------------------------------------------
\* FindMemoryReferences
\* ------------------------------------------------------------------------

\* program.FindByte(address).IsStack(): the bytes the program's memory map
\* marks as stack.
IsStack(addr) == addr \in StackAddrs

\* What lines 201-274 make of an instruction: "skip" (continue), "call" (a
\* call to another function, kept for the second sweep) or "access" with
\* the access-kind flags and the address value.
Access(ld, st, vol, atm, addr) ==
  [kind |-> "access", is_load |-> ld, is_store |-> st, is_volatile |-> vol,
   is_atomic |-> atm, address_val |-> addr]
Skip == [kind |-> "skip"]
OtherCall == [kind |-> "call"]

Recognize(body, i) ==
  LET ins == body[i] IN
  IF ins.op = "Call" THEN
    IF ins.callee = NoName THEN Skip
    ELSE IF ~startswith(ins.callee, kRemill) THEN OtherCall
    ELSE IF startswith(ins.callee, kReadMemory)
      THEN Access(TRUE, FALSE, FALSE, FALSE, ins.a)
    ELSE IF startswith(ins.callee, kWriteMemory)
      THEN Access(FALSE, TRUE, FALSE, FALSE, ins.a)
    ELSE IF startswith(ins.callee, kCompareExchange)
      THEN Access(TRUE, TRUE, FALSE, TRUE, ins.a)
    ELSE IF startswith(ins.callee, kFetchAnd)
      THEN Access(TRUE, TRUE, FALSE, TRUE, ins.a)
    ELSE IF startswith(ins.callee, kReadIoPort)
      THEN Access(TRUE, FALSE, TRUE, FALSE, ins.a)
    ELSE IF startswith(ins.callee, kWriteIoPort)
      THEN Access(FALSE, TRUE, TRUE, FALSE, ins.a)
    ELSE Skip
  ELSE IF ins.op = "IntToPtr" THEN
    Access(FALSE, FALSE, FALSE, FALSE, ins.a)
  ELSE IF ins.op = "BitCast" THEN
    IF TypeClass(body, InstV(i)) = "ptr"
    THEN Access(FALSE, FALSE, FALSE, FALSE, stripPointerCasts(body, InstV(i)))
    ELSE Skip
  ELSE Skip

\* A classification that sends every cell to the stack bucket.
BucketOfAddress_stack(addr) == "stack"

\* Lines 286-291 and 319-324: the bucket of a cell.
BucketOfAddress(addr) == IF IsStack(addr) THEN "stack" ELSE "global"

\* The cells of the loop over bases, in the order `order` of its keys.
CellsOfBases(order) ==
  [k \in DOMAIN order |->
     [scan_cell EXCEPT !.user = UserOf(scan_func, order[k]),
                       !.address_const = bases[order[k]]]]

\* The orders an unordered_map can hand out its keys in.
KeyOrders(keys) ==
  {o \in [1..Cardinality(keys) -> keys] :
     \A i, j \in 1..Cardinality(keys) : o[i] = o[j] => i = j}

\* s with the elements of t that `keep` holds for appended.
RECURSIVE PushAll(_, _, _)
PushAll(s, t, bucket) ==
  IF t = <<>> THEN s
  ELSE PushAll(IF BucketOfAddress(Head(t).address_const) = bucket
               THEN Append(s, Head(t)) ELSE s,
               Tail(t), bucket)

\* ForEachFunction (lines 483-492): FindMemoryReferences is called for the
\* next defined function; its locals start empty (lines 184-186).
ScanFunction(f) ==
  /\ pc = "scan_pick"
  /\ f \in scan_todo
  /\ scan_func' = f
  /\ ip' = 1
  /\ calls' = <<>>
  /\ bases' = <<>>
  /\ seen' = {}
  /\ pc' = "scan"
  /\ nearby' = nearby \cup {FunctionKey(f)}
  /\ UNCHANGED <<stack_cells, builder_vars, block_vars, convention_vars, bodies, global_cells, scan_todo,
                 ci, scan_cell, stack, expanded, emitted>>

\* Lines 189-274: an instruction that yields no cell (continue).
ScanSkip ==
  /\ pc = "scan"
  /\ ip <= Len(Body)
  /\ Recognize(Body, ip).kind = "skip"
  /\ ip' = ip + 1
  /\ UNCHANGED <<stack_cells, pc, builder_vars, module_vars, bodies, global_cells,
                 scan_todo, scan_func, calls, ci, scan_cell, bases, seen,
                 stack, expanded, emitted>>

\* Lines 209-212: a call to a function that is no intrinsic.
ScanCall ==
  /\ pc = "scan"
  /\ ip <= Len(Body)
  /\ Recognize(Body, ip).kind = "call"
  /\ calls' = Append(calls, ip)
  /\ ip' = ip + 1
  /\ UNCHANGED <<stack_cells, pc, builder_vars, module_vars, bodies, global_cells,
                 scan_todo, scan_func, ci, scan_cell, bases, seen, stack,
                 expanded, emitted>>

\* Lines 191-280: an access; the cell is filled in and the search for the
\* constant bases of its address starts.
ScanAccess ==
  /\ pc = "scan"
  /\ ip <= Len(Body)
  /\ LET r == Recognize(Body, ip) IN
       /\ r.kind = "access"
       /\ scan_cell' = MakeCell(Body[ip].ty, NoValue, 0, r.is_load,
                                r.is_store, r.is_volatile, r.is_atomic)
       /\ stack' = <<Activation(ip, r.address_val)>>
  /\ bases' = <<>>
  /\ seen' = {}
  /\ expanded' = <<>>
  /\ pc' = "resolve_inst"
  /\ UNCHANGED <<stack_cells, builder_vars, module_vars, bodies, global_cells, scan_todo,
                 scan_func, ip, calls, ci, emitted>>

\* Lines 282-292 and 314-325: a cell per base, pushed to the stack or the
\* global bucket of the function; then the next instruction or argument.
EmitCells ==
  /\ pc \in {"resolve_inst", "resolve_arg"}
  /\ stack = <<>>
  /\ \E order \in KeyOrders(DOMAIN bases) :
       LET cells == CellsOfBases(order) IN
         /\ stack_cells' = [stack_cells EXCEPT ![scan_func] =
                              PushAll(@, cells, "stack")]
         /\ global_cells' = [global_cells EXCEPT ![scan_func] =
                               PushAll(@, cells, "global")]
         /\ emitted' = emitted \o
              [k \in DOMAIN cells |->
                 [func |-> scan_func,
                  site |-> IF pc = "resolve_inst" THEN ip ELSE calls[ci],
                  from |-> IF pc = "resolve_inst" THEN "inst" ELSE "arg",
                  cell |-> cells[k]]]
  /\ IF pc = "resolve_inst"
     THEN /\ ip' = ip + 1
          /\ pc' = "scan"
          /\ UNCHANGED ci
     ELSE /\ ci' = ci + 1
          /\ pc' = "sweep"
          /\ UNCHANGED ip
  /\ UNCHANGED <<builder_vars, module_vars, bodies, scan_todo, scan_func, calls,
                 scan_cell, bases, seen, stack, expanded>>

\* Line 294: the loop over the instructions is over.
ScanEnd ==
  /\ pc = "scan"
  /\ ip > Len(Body)
  /\ ci' = 1
  /\ pc' = "sweep"
  /\ UNCHANGED <<stack_cells, builder_vars, module_vars, bodies, global_cells, scan_todo,
                 scan_func, ip, calls, scan_cell, bases, seen, stack,
                 expanded, emitted>>

\* Lines 299-304: an argument that is no pointer.
SweepSkip ==
  /\ pc = "sweep"
  /\ ci <= Len(calls)
  /\ TypeClass(Body, Body[calls[ci]].a) # "ptr"
  /\ ci' = ci + 1
  /\ UNCHANGED <<stack_cells, pc, builder_vars, module_vars, bodies, global_cells,
                 scan_todo, scan_func, ip, calls, scan_cell, bases, seen,
                 stack, expanded, emitted>>

\* Lines 306-313: a pointer argument of a call; a fresh cell, and the search
\* for the constant bases of the argument starts.
SweepArgument ==
  /\ pc = "sweep"
  /\ ci <= Len(calls)
  /\ TypeClass(Body, Body[calls[ci]].a) = "ptr"
  /\ scan_cell' = MakeCell(Body[calls[ci]].ty, NoValue, 0,
                           FALSE, FALSE, FALSE, FALSE)
  /\ stack' = <<Activation(calls[ci], Body[calls[ci]].a)>>
  /\ bases' = <<>>
  /\ seen' = {}
  /\ expanded' = <<>>
  /\ pc' = "resolve_arg"
  /\ UNCHANGED <<stack_cells, builder_vars, module_vars, bodies, global_cells, scan_todo,
                 scan_func, ip, calls, ci, emitted>>

\* A ForEachFunction that stops after the first function.
ScanReturn_early ==
  /\ pc = "sweep"
  /\ ci > Len(calls)
  /\ scan_todo' = scan_todo \ {scan_func}
  /\ pc' = "scanned"
  /\ UNCHANGED <<stack_cells, builder_vars, module_vars, bodies, global_cells, scan_func,
                 ip, calls, ci, scan_cell, bases, seen, stack, expanded,
                 emitted>>

\* Line 328: FindMemoryReferences returns.
ScanReturn ==
  /\ pc = "sweep"
  /\ ci > Len(calls)
  /\ scan_todo' = scan_todo \ {scan_func}
  /\ pc' = IF scan_todo' = {} THEN "scanned" ELSE "scan_pick"
  /\ UNCHANGED <<stack_cells, builder_vars, module_vars, bodies, global_cells, scan_func,
                 ip, calls, ci, scan_cell, bases, seen, stack, expanded,
                 emitted>>

Next ==
  \/ \E f \in Funcs : ScanFunction(f)
  \/ ScanSkip
  \/ ScanCall
  \/ ScanAccess
  \/ FindConstantBases
  \/ EmitCells
  \/ ScanEnd
  \/ SweepSkip
  \/ SweepArgument
  \/ ScanReturn

\* ------------------------------------------------------------------------
\* Init of the scanner: the functions of the module
\* ------------------------------------------------------------------------

\* The leaves of an address computation: the constant 200, a stack address;
\* the constant 4096, an address outside the stack; an argument.
Leaves == {Const(200), Const(4096), Arg}

\* The names of called functions: the memory intrinsics, a barrier, another
\* intrinsic, a function that is no intrinsic.
IntrinsicNames ==
  {<<"__remill", "_read_memory_", "64">>,
   <<"__remill", "_write_memory_", "64">>,
   <<"__remill", "_compare_exchange_", "memory_64">>,
   <<"__remill", "_fetch_and_", "add_64">>,
   <<"__remill", "_read_io_port_", "32">>,
   <<"__remill", "_write_io_port_", "32">>,
   <<"__remill", "_barrier_", "load_load">>,
   <<"__remill", "_function_call">>}
kMemcpy == <<"memcpy">>

\* The instructions that can stand at position i of a block of n address
\* computations: the operands of a PHI are any values of the block, those of
\* another instruction are leaves or earlier instructions.
Earlier(i) == Leaves \cup {InstV(j) : j \in 1..(i - 1)}
BlockValues(n) == Leaves \cup {InstV(j) : j \in 1..n}

Computations(i, n) ==
  {Instr("PHI", a, b, NoName, "i64") : a \in BlockValues(n), b \in BlockValues(n)}
  \cup {Instr(op, a, NoValue, NoName, "i64") : op \in CastOps, a \in Earlier(i)}
  \cup {Instr(op, a, b, NoName, "i64") :
          op \in BinaryOps, a \in Earlier(i), b \in Earlier(i)}

\* The calls that can stand at position i: to an intrinsic, to memcpy, or
\* through a function pointer (no called function).
Calls(i, names, args, tys) ==
  {Instr("Call", a, NoValue, nm, ty) : nm \in names, a \in args, ty \in tys}

\* The operand types the verifier accepts.
WellTyped(body) ==
  \A i \in DOMAIN body :
    LET ins == body[i] IN
      CASE ins.op = "PHI" ->
             TypeClass(body, ins.a) = "int" /\ TypeClass(body, ins.b) = "int"
        [] ins.op \in {"ZExt", "SExt", "Trunc", "IntToPtr"} ->
             TypeClass(body, ins.a) = "int"
        [] ins.op \in {"PtrToInt", "GetElementPtr"} ->
             TypeClass(body, ins.a) = "ptr"
        [] ins.op \in BinaryOps ->
             TypeClass(body, ins.a) = "int" /\ TypeClass(body, ins.b) = "int"
        [] ins.op = "Call" /\ startswith(ins.callee, kRemill) ->
             TypeClass(body, ins.a) = "int"
        [] OTHER -> TRUE

\* Two address computations and an access through a memory intrinsic or a
\* call of memcpy.
ComputedAccesses ==
  {b \in {<<i1, i2, i3>> :
            i1 \in Computations(1, 2), i2 \in Computations(2, 2),
            i3 \in Calls(3, {<<"__remill", "_read_memory_", "64">>, kMemcpy},
                         {InstV(1), InstV(2)}, {"i64"})} :
     WellTyped(b)}

\* One call, of any name, with a leaf address.
DirectCalls ==
  {<<i1>> : i1 \in Calls(1, IntrinsicNames \cup {kMemcpy, NoName},
                         Leaves, {"i64", "a65540"})}

ScannerStart ==
  /\ stack_cells = [f \in Funcs |-> <<>>]
  /\ global_cells = [f \in Funcs |-> <<>>]
  /\ scan_todo = Funcs
  /\ scan_func = "none"
  /\ ip = 0
  /\ calls = <<>>
  /\ ci = 0
  /\ scan_cell = NoCell
  /\ bases = <<>>
  /\ seen = {}
  /\ stack = <<>>
  /\ expanded = <<>>
  /\ emitted = <<>>
  /\ pc = "scan_pick"
  /\ BuilderIdle
  /\ ModuleIdle
  /\ nearby = {}
  /\ NoConvention

Init ==
  /\ \/ \E b1 \in ComputedAccesses :
          bodies = [f \in Funcs |-> IF f = "f1" THEN b1 ELSE <<>>]
     \/ \E b1 \in DirectCalls, b2 \in DirectCalls :
          bodies = [f \in Funcs |-> IF f = "f1" THEN b1 ELSE b2]
  /\ ScannerStart

Spec == Init /\ [][Next]_vars

\* ------------------------------------------------------------------------
\* Properties of the scanner and the resolver
\* ------------------------------------------------------------------------

\* A search is under way or has just returned to FindMemoryReferences.
InSearch == pc \in {"resolve_inst", "resolve_arg"}

\* The consumer U and the address value V the search was started with.
OriginUser == IF pc = "resolve_inst" THEN ip ELSE calls[ci]
OriginValue ==
  IF pc = "resolve_inst" THEN Recognize(Body, ip).address_val
  ELSE Body[calls[ci]].a

\* C6 (as stated): every constant the resolver records is recorded under the
\* original consumer U of the access site, also when it was reached through
\* a merge point, a cast or arithmetic.
C6_RecordedUnderOriginalConsumer ==
  InSearch => \A u \in DOMAIN bases : u = OriginUser

\* C6 (as amended): every constant the resolver records is recorded under
\* its immediate consumer: under the merge point, cast or arithmetic
\* instruction that the search went through and that has the constant as an
\* operand, and under the original consumer U only when the address value V
\* is itself the constant.
C6_RecordedUnderImmediateConsumer ==
  InSearch =>
    \A u \in DOMAIN bases :
      \/ u = OriginUser /\ OriginValue = Const(bases[u])
      \/ /\ InstV(u) \in seen
         /\ Const(bases[u]) \in {Body[u].a, Body[u].b}

\* C6 witness: a search has returned with a constant recorded under a merge
\* point that is not the access site.
C6_Witness ==
  /\ InSearch
  /\ stack = <<>>
  /\ \E u \in DOMAIN bases : u # OriginUser /\ Body[u].op = "PHI"

\* C7 (as stated): constants are recorded only through merge points, casts,
\* truncation/extension, subtraction and addition; never as an operand of
\* another operator such as multiplication, shift, logical and, logical or.
C7_OnlyCastsAddSub ==
  InSearch =>
    \A u \in DOMAIN bases :
      \/ u = OriginUser /\ OriginValue = Const(bases[u])
      \/ Body[u].op \in {"PHI", "GetElementPtr", "BitCast", "IntToPtr",
                         "PtrToInt", "ZExt", "SExt", "Trunc", "Sub", "Add"}

\* C7 (as amended): constants are recorded only through merge points, GEPs,
\* pointer/bit casts, zero/sign extension, the first operand of a
\* subtraction, and both operands of an addition, a logical and or a logical
\* or; never under a multiplication, a shift, a truncation or an xor, nor as
\* the second operand of a subtraction; and every value the search reaches
\* beyond V is such an operand of an instruction it reached.
C7_OnlyFollowedOperators ==
  InSearch =>
    /\ \A u \in DOMAIN bases :
         \/ u = OriginUser /\ OriginValue = Const(bases[u])
         \/ /\ Body[u].op \in {"PHI", "GetElementPtr", "BitCast", "IntToPtr",
                               "PtrToInt", "ZExt", "SExt", "Sub", "Add",
                               "And", "Or"}
            /\ Body[u].op = "Sub" => Body[u].a = Const(bases[u])
    /\ \A v \in seen :
         \/ v = OriginValue
         \/ \E w \in seen :
              /\ IsInstruction(w)
              /\ \/ v = Body[w[2]].a
                 \/ v = Body[w[2]].b
                      /\ Body[w[2]].op \in {"PHI", "Add", "And", "Or"}
              /\ Body[w[2]].op \notin {"Mul", "Shl", "Xor", "Trunc", "Call"}

\* C7 witness: a search has returned with a constant recorded under a
\* logical and, and one in which a multiplication was reached and nothing
\* recorded.
C7_Witness ==
  /\ InSearch
  /\ stack = <<>>
  /\ \E u \in DOMAIN bases : Body[u].op = "And"
  /\ \E v \in seen : IsInstruction(v) /\ Body[v[2]].op = "Mul"

\* The values of the function being scanned.
ValuesOfBody == Leaves \cup {InstV(i) : i \in DOMAIN Body}

\* The work an activation still holds: one step before its body has run,
\* afterwards one step per recursive call left plus the return of each.
WorkOf(act) ==
  IF act.next = 0 THEN 1
  ELSE 2 * (Len(FollowedOperands(Body[act.val[2]])) - (act.next - 1)) + 1

\* A variant of the search: the values not yet seen weigh more than the work
\* any one of them can add.
SearchRank ==
  5 * Cardinality(ValuesOfBody \ seen)
    + SumSeq([k \in DOMAIN stack |-> WorkOf(stack[k])])

\* C8: FindConstantBases terminates on every def-use graph, cyclic merge
\* points included: no value is expanded more than once in a search, the
\* depth of the recursion is bounded by the number of values, and every step
\* of the search lowers a non-negative variant.
C8_SearchTerminates ==
  /\ [](InSearch =>
          /\ \A i, j \in DOMAIN expanded : expanded[i] = expanded[j] => i = j
          /\ Len(expanded) <= Cardinality(ValuesOfBody)
          /\ Len(stack) <= Cardinality(ValuesOfBody) + 1
          /\ SearchRank >= 0)
  /\ [][Resolving => SearchRank' < SearchRank]_vars

\* C8 witness: the search comes back to a merge point that is still being
\* expanded (a cycle through it) and returns because it was seen.
C8_Witness ==
  /\ Resolving
  /\ Top.next = 0
  /\ Top.val \in seen
  /\ IsInstruction(Top.val)
  /\ Body[Top.val[2]].op = "PHI"
  /\ \E k \in 1..(Len(stack) - 1) : stack[k].val = Top.val
  /\ \E k \in 1..(Len(stack) - 1) :
       Body[stack[k].val[2]].op = "Add"

\* The cells of all buckets.
BucketCells(f) == Range(stack_cells[f]) \cup Range(global_cells[f])

\* C9: every cell the scanner produces is in exactly one bucket of its own
\* function: the stack bucket if FindByte(address).IsStack(), otherwise the
\* global bucket; none is dropped, duplicated or put in another function's
\* bucket.
C9_OneBucketPerCell ==
  /\ Len(emitted) =
       SumSeq([k \in 1..2 |->
                 LET f == IF k = 1 THEN "f1" ELSE "f2" IN
                   Len(stack_cells[f]) + Len(global_cells[f])])
  /\ \A k \in DOMAIN emitted :
       LET e == emitted[k] IN
         /\ IsStack(e.cell.address_const) =>
              /\ e.cell \in Range(stack_cells[e.func])
              /\ e.cell \notin Range(global_cells[e.func])
         /\ ~IsStack(e.cell.address_const) =>
              /\ e.cell \in Range(global_cells[e.func])
              /\ e.cell \notin Range(stack_cells[e.func])
         /\ \A g \in Funcs \ {e.func} : e.cell \notin BucketCells(g)

\* C9 witness: the scan is over and one function holds a stack cell and a
\* cell of an address that is not stack.
C9_Witness ==
  /\ pc = "scanned"
  /\ \E f \in Funcs : stack_cells[f] # <<>> /\ global_cells[f] # <<>>

\* The access-kind flags <<is_load, is_store, is_volatile, is_atomic>> of a
\* cell.
FlagsOf(c) == <<c.is_load, c.is_store, c.is_volatile, c.is_atomic>>

\* C10: the flags of a cell follow the name of the intrinsic: typed read ->
\* load; typed write -> store; compare-exchange and fetch-and-update -> load,
\* store, atomic; I/O port read -> load, volatile; I/O port write -> store,
\* volatile; no other call yields a cell from the first sweep; a cell from a
\* raw cast or a call argument has no flag set.
C10_FlagsByName ==
  \A k \in DOMAIN emitted :
    LET e == emitted[k]
        ins == bodies[e.func][e.site] IN
      IF e.from = "arg" \/ ins.op \in {"IntToPtr", "BitCast"}
      THEN FlagsOf(e.cell) = <<FALSE, FALSE, FALSE, FALSE>>
      ELSE
        /\ ins.op = "Call"
        /\ Len(ins.callee) >= 2
        /\ ins.callee[1] = "__remill"
        /\ ins.callee[2] \in {"_read_memory_", "_write_memory_",
                              "_compare_exchange_", "_fetch_and_",
                              "_read_io_port_", "_write_io_port_"}
        /\ FlagsOf(e.cell) =
             CASE ins.callee[2] = "_read_memory_" -> <<TRUE, FALSE, FALSE, FALSE>>
               [] ins.callee[2] = "_write_memory_" -> <<FALSE, TRUE, FALSE, FALSE>>
               [] ins.callee[2] = "_compare_exchange_" -> <<TRUE, TRUE, FALSE, TRUE>>
               [] ins.callee[2] = "_fetch_and_" -> <<TRUE, TRUE, FALSE, TRUE>>
               [] ins.callee[2] = "_read_io_port_" -> <<TRUE, FALSE, TRUE, FALSE>>
               [] ins.callee[2] = "_write_io_port_" -> <<FALSE, TRUE, TRUE, FALSE>>

\* C10 witness: the scan is over; a compare-exchange and an I/O port write
\* have each yielded a cell, and a barrier with a constant argument none.
C10_Witness ==
  /\ pc = "scanned"
  /\ \E k \in DOMAIN emitted : emitted[k].cell.is_atomic
  /\ \E k \in DOMAIN emitted :
       emitted[k].cell.is_volatile /\ emitted[k].cell.is_store

\* C10 witness of the calls that yield nothing: a barrier whose argument is
\* a constant has been scanned and no cell was produced.
C10_BarrierScanned ==
  /\ pc = "scanned"
  /\ emitted = <<>>
  /\ \E f \in Funcs :
       /\ Len(bodies[f]) = 1
       /\ bodies[f][1].callee = <<"__remill", "_barrier_", "load_load">>
       /\ IsConstantInt(bodies[f][1].a)


\* ------------------------------------------------------------------------
\* The frame builder of a program without an initial stack pointer
\* ------------------------------------------------------------------------

\* A program whose InitialStackPointer() is empty.  Line 542 dereferences it
\* without a test: the read yields whatever the storage of the optional
\* holds (sp), or a build with assertions stops in operator*.
InitNoStackPointer ==
  /\ FrameStart
  /\ has_stack_pointer = FALSE
  /\ globals = {}
  /\ NoBlock
  /\ nearby = NearbyOf(Funcs, globals)
  /\ NoConvention

\* Line 542 in a build whose optional asserts on an empty dereference.
DerefEmpty ==
  /\ pc = "frames"
  /\ ~has_stack_pointer
  /\ todo # {}
  /\ pc' = "aborted"
  /\ UNCHANGED <<stack_cells, builder_vars, scanner_vars, module_vars>>

NextNoStackPointer ==
  \/ NextFrame
  \/ DerefEmpty

SpecNoStackPointer == InitNoStackPointer /\ [][NextNoStackPointer]_vars

\* C13: without an initial stack pointer and with stack cells present, the
\* pipeline stops with a fatal error before any frame is built: no layout
\* walk starts and no function is processed.
C13_FatalWithoutStackPointer ==
  (~has_stack_pointer /\ Keys(stack_cells) # {}) =>
     /\ pc \notin {"layout", "rewrite"}
     /\ Processed = {}
     /\ \A f \in Funcs : frame[f] = <<>>


\* ------------------------------------------------------------------------
\* The layout walk as a function of the sorted cells
\* ------------------------------------------------------------------------

\* What LLVM keeps of an entry: an array type [len x i8] or the cell's type.
ShapeOf(e) == [kind |-> e.kind, len |-> e.len, type |-> e.type]
Shape(es) == [i \in DOMAIN es |-> ShapeOf(es[i])]

\* Lines 558-574 over the whole of `cells`, started with the cursor at r: the
\* types pushed.
RECURSIVE Layout(_, _)
Layout(cells, r) ==
  IF cells = <<>> THEN <<>>
  ELSE
    LET cell == Head(cells) IN
      IF r < cell.address_const THEN
        <<ShapeOf(PadEntry(cell.address_const - r, r)),
          ShapeOf(TypeEntry(cell.type, cell.address_const, 0))>>
          \o Layout(Tail(cells),
                    AdvanceRunningAddr(PadTo(r, cell.address_const), cell))
      ELSE IF r > cell.address_const THEN Layout(Tail(cells), r)
      ELSE <<ShapeOf(TypeEntry(cell.type, r, 0))>>
             \o Layout(Tail(cells), AdvanceRunningAddr(r, cell))

\* The positions of the cells of f that the layout walk skipped: those
\* without a typed entry in the frame.
SkippedCells(f) ==
  {k \in DOMAIN stack_cells[f] :
     \A i \in DOMAIN frame[f] : frame[f][i].cell # k}

\* The cells of f without the skipped ones, in order.
RECURSIVE Without(_, _, _)
Without(cells, k, skipped) ==
  IF k > Len(cells) THEN <<>>
  ELSE (IF k \in skipped THEN <<>> ELSE <<cells[k]>>)
         \o Without(cells, k + 1, skipped)

\* The layout walk is at a cell that lies behind the cursor.
AtSkippedCell ==
  /\ pc = "layout"
  /\ idx <= Len(stack_cells[func])
  /\ running_addr > stack_cells[func][idx].address_const

\* The layout of a skipped cell and of the cells after it: the step that
\* skips pushes no entry and leaves the cursor, and the frame is the layout
\* of the other cells alone.
SkipLeavesLayout ==
  \A f \in Processed :
    Shape(frame[f]) =
      Layout(Without(stack_cells[f], 1, SkippedCells(f)),
             InitialRunningAddr(MinAddressOf(f)))

\* The use of a skipped cell still holds the address constant: nothing of
\* the cell refers to the frame.
SkipExcludesUse ==
  \A f \in Processed : \A k \in SkippedCells(f) :
    operand[stack_cells[f][k].user].kind = "const"

C15_FrameIndependentOfOrder ==
  \A f \in Processed :
    \A s \in SortedBy(stack_cells[f]) :
      Layout(s, InitialRunningAddr(MinAddressOf(f))) = Shape(frame[f])


\* ------------------------------------------------------------------------
\* Properties of the cells the scanner records
\* ------------------------------------------------------------------------

\* C19: the size recorded in every cell is the allocation size of its type,
\* also for types of 65536 bytes or more.
C19_SizeIsAllocSize ==
  \A f \in Funcs :
    \A c \in Range(stack_cells[f]) \cup Range(global_cells[f]) :
      c.size = getTypeAllocSize(c.type)


\* The search from the current access site has returned.
SearchReturned == InSearch /\ stack = <<>>

\* The constants among the operands the resolver follows from instruction i.
FollowedConstants(i) ==
  {v \in Range(FollowedOperands(Body[i])) : IsConstantInt(v)}

\* C20: within one search, a constant that is an operand of two distinct
\* instructions on the backward path is recorded for each of them: the base
\* map has an entry for both instructions.
C20_RecordedPerConsumer ==
  SearchReturned =>
    \A i, j \in DOMAIN Body :
      (/\ i # j
       /\ InstV(i) \in seen
       /\ InstV(j) \in seen
       /\ FollowedConstants(i) \cap FollowedConstants(j) # {})
      => (i \in DOMAIN bases /\ j \in DOMAIN bases)


\* ------------------------------------------------------------------------
\* The instructions of a block of the module
\* ------------------------------------------------------------------------

\* Values besides those of the scanner: the memory-state argument of the
\* function (Arg is an integer argument), a pointer argument with its pointee
\* type and address space, a global variable of an address space, and a
\* constant expression.
MemArg == <<"arg", 1>>
PtrArg(pointee, as) == <<"ptrarg", pointee, as>>
Global(as) == <<"global", "i8", as>>
ConstExpr(op, a, ty) == <<"ce", op, a, ty>>

\* llvm::isa<llvm::Constant>, llvm::isa<llvm::ConstantExpr>
IsConstant(v) == v[1] \in {"const", "global", "ce"}
IsConstantExpr(v) == Len(v) > 0 /\ v[1] = "ce"

\* The pointer type of a pointer argument or global variable: pointee type
\* and address space.
PointerTypeOf(v) == <<v[2], v[3]>>

\* An instruction: `ops` are its operands (of a call: its arguments), `ty`
\* its type, `site` the call at whose position an IRBuilder created it (0
\* for an instruction of the input).
Inst(id, op, callee, ops, ty, site) ==
  [id |-> id, op |-> op, callee |-> callee, ops |-> ops, ty |-> ty,
   site |-> site]

Ids(seq) == {seq[k].id : k \in DOMAIN seq}
InstOf(seq, id) == seq[CHOOSE k \in DOMAIN seq : seq[k].id = id]
PositionOf(seq, id) == CHOOSE k \in DOMAIN seq : seq[k].id = id

\* llvm::dyn_cast<llvm::PtrToIntInst>(v) and the like.
IsInst(seq, v, op) ==
  IsInstruction(v) /\ v[2] \in Ids(seq) /\ InstOf(seq, v[2]).op = op

\* The users of a value.
UsersOf(seq, v) ==
  {seq[k].id : k \in {j \in DOMAIN seq : v \in Range(seq[j].ops)}}

\* A replaceAllUsesWith that is left out.
ReplaceAllUsesWith_none(seq, old, new) == seq

\* old->replaceAllUsesWith(new)
ReplaceAllUsesWith(seq, old, new) ==
  [k \in DOMAIN seq |->
     [seq[k] EXCEPT !.ops = [j \in DOMAIN @ |-> IF @[j] = old THEN new ELSE @[j]]]]

\* llvm::IRBuilder<> ir(inst): the instructions `made` go before `id`.
InsertBefore(seq, id, made) ==
  LET k == PositionOf(seq, id) IN
    SubSeq(seq, 1, k - 1) \o made \o SubSeq(seq, k, Len(seq))

\* inst->eraseFromParent()
EraseFromParent(seq, id) ==
  LET k == PositionOf(seq, id) IN
    SubSeq(seq, 1, k - 1) \o SubSeq(seq, k + 1, Len(seq))

\* ------------------------------------------------------------------------
\* LowerMemOps
\* ------------------------------------------------------------------------

MemOp(op, name, val_type) == [op |-> op, name |-> name, val_type |-> val_type]

\* The calls of LowerMemOps, in order.
LowerOrder ==
  << MemOp("read", <<"__remill", "_read_memory_", "8">>, "i8"),
     MemOp("read", <<"__remill", "_read_memory_", "16">>, "i16"),
     MemOp("read", <<"__remill", "_read_memory_", "32">>, "i32"),
     MemOp("read", <<"__remill", "_read_memory_", "64">>, "i64"),
     MemOp("read", <<"__remill", "_read_memory_", "f32">>, "float"),
     MemOp("read", <<"__remill", "_read_memory_", "f64">>, "double"),
     MemOp("write", <<"__remill", "_write_memory_", "8">>, "i8"),
     MemOp("write", <<"__remill", "_write_memory_", "16">>, "i16"),
     MemOp("write", <<"__remill", "_write_memory_", "32">>, "i32"),
     MemOp("write", <<"__remill", "_write_memory_", "64">>, "i64"),
     MemOp("write", <<"__remill", "_write_memory_", "f32">>, "float"),
     MemOp("write", <<"__remill", "_write_memory_", "f64">>, "double"),
     MemOp("read", <<"__remill", "_read_memory_", "f80">>, "x86_fp80"),
     MemOp("write", <<"__remill", "_write_memory_", "f80">>, "x86_fp80"),
     MemOp("barrier", <<"__remill", "_barrier_", "load_load">>, "void"),
     MemOp("barrier", <<"__remill", "_barrier_", "load_store">>, "void"),
     MemOp("barrier", <<"__remill", "_barrier_", "store_load">>, "void"),
     MemOp("barrier", <<"__remill", "_barrier_", "store_store">>, "void"),
     MemOp("barrier", <<"__remill", "_barrier_", "atomic_begin">>, "void"),
     MemOp("barrier", <<"__remill", "_barrier_", "atomic_end">>, "void") >>

\* The call of LowerMemOps under way.
Entry == LowerOrder[lower_i]

\* module.getFunction(name) is not null: the functions the block calls and
\* the intrinsic that has a body.
Declared ==
  {insts0[k].callee : k \in {j \in DOMAIN insts0 : insts0[j].op = "Call"}}
    \cup ({implemented} \ {NoName})

\* remill::CallersOf(func)
CallersOf(name) ==
  {insts[k].id :
     k \in {j \in DOMAIN insts : insts[j].op = "Call" /\ insts[j].callee = name}}

\* Lines 364-375 and 403-415: the pointer of the load or store, and the
\* instructions made for it.  IRBuilder::CreateBitCast returns its operand
\* when it has the type already; the builder folds a cast of a constant into
\* a constant expression, and an integer-to-pointer conversion of a
\* pointer-to-integer conversion into a bitcast when the address spaces
\* agree.
AddressPointer(seq, call, val_type, id) ==
  LET addr == call.ops[2] IN
    IF IsInst(seq, addr, "PtrToInt") THEN
      LET P  == InstOf(seq, addr[2]).ops[1]
          ty == <<val_type, PointerTypeOf(P)[2]>> IN
        IF PointerTypeOf(P) = ty THEN [made |-> <<>>, ptr |-> P]
        ELSE IF IsConstant(P)
          THEN [made |-> <<>>, ptr |-> ConstExpr("BitCast", P, ty)]
        ELSE [made |-> <<Inst(id, "BitCast", NoName, <<P>>, ty, call.id)>>,
              ptr |-> InstV(id)]
    ELSE IF IsConstant(addr) THEN
      LET ty == <<val_type, 0>> IN
        IF IsConstantExpr(addr) /\ addr[2] = "PtrToInt"
             /\ PointerTypeOf(addr[3])[2] = 0
        THEN [made |-> <<>>,
              ptr |-> IF PointerTypeOf(addr[3]) = ty THEN addr[3]
                      ELSE ConstExpr("BitCast", addr[3], ty)]
        ELSE [made |-> <<>>, ptr |-> ConstExpr("IntToPtr", addr, ty)]
    ELSE [made |-> <<Inst(id, "IntToPtr", NoName, <<addr>>, <<val_type, 0>>,
                          call.id)>>,
          ptr |-> InstV(id)]

\* What the steps of the tail of RecoveryMemoryAccesses leave alone.
LowerFrame ==
  UNCHANGED <<stack_cells, sp, todo, func, min_stack_address,
              max_stack_address, running_addr, types, idx, frame,
              offset_cache, operand, scanner_vars, has_stack_pointer, globals,
              insts0, implemented, unfolding, nearby,
              convention_vars>>

\* Lines 604-610: the popularity table is cleared and counted again over the
\* global cells.  Nothing reads it afterwards: lines 612-635 are commented
\* out.
CountGlobalPopularity ==
  /\ pc = "globals"
  /\ popularity' =
       [k \in {<<c.address_const, c.type>> :
                 c \in UNION {Range(global_cells[f]) : f \in Funcs}} |->
          Cardinality({<<f, i>> \in Funcs \X (1..MaxCells + 1) :
                         /\ i \in DOMAIN global_cells[f]
                         /\ global_cells[f][i].address_const = k[1]
                         /\ global_cells[f][i].type = k[2]})]
  /\ pc' = "lower"
  /\ UNCHANGED <<stack_cells, sp, todo, func, min_stack_address,
                 max_stack_address, running_addr, types, idx, frame,
                 offset_cache, operand, scanner_vars, module_vars>>

\* Lines 335-343, 354-362, 391-399: the function of the next name; nothing
\* to do when the module has none, CHECK fails when it has a body.
LowerBegin ==
  /\ pc = "lower"
  /\ lower_i <= Len(LowerOrder)
  /\ IF Entry.name \notin Declared THEN
       /\ lower_i' = lower_i + 1
       /\ UNCHANGED <<pc, callers, erasing>>
     ELSE IF Entry.name = implemented THEN
       /\ pc' = "check_failed"
       /\ UNCHANGED <<lower_i, callers, erasing>>
     ELSE
       /\ pc' = "replace"
       /\ callers' = CallersOf(Entry.name)
       /\ erasing' = IF Entry.op = "barrier" THEN {} ELSE CallersOf(Entry.name)
       /\ UNCHANGED lower_i
  /\ UNCHANGED <<popularity, insts, fresh, erased_used>>
  /\ LowerFrame

\* Lines 363-382: one iteration of the first loop of ReplaceMemReadOp.  The
\* vector of callers is in use-list order: any order.
ReplaceMemReadOp ==
  /\ pc = "replace"
  /\ Entry.op = "read"
  /\ \E c \in callers :
       LET call  == InstOf(insts, c)
           a     == AddressPointer(insts, call, Entry.val_type, fresh + 1)
           n     == fresh + Len(a.made)
           load  == Inst(n + 1, "Load", NoName, <<a.ptr>>, Entry.val_type, c)
           trunc == Inst(n + 2, "FPTrunc", NoName, <<InstV(n + 1)>>, call.ty, c)
           made  == a.made \o <<load>> \o
                      (IF Entry.val_type = "x86_fp80" THEN <<trunc>> ELSE <<>>)
           val   == InstV(made[Len(made)].id)
       IN /\ insts' = ReplaceAllUsesWith(InsertBefore(insts, c, made),
                                         InstV(c), val)
          /\ fresh' = fresh + Len(made)
          /\ callers' = callers \ {c}
  /\ UNCHANGED <<popularity, pc, lower_i, erasing, erased_used>>
  /\ LowerFrame

\* Lines 401-423: one iteration of the first loop of ReplaceMemWriteOp.
ReplaceMemWriteOp ==
  /\ pc = "replace"
  /\ Entry.op = "write"
  /\ \E c \in callers :
       LET call    == InstOf(insts, c)
           mem_ptr == call.ops[1]
           a       == AddressPointer(insts, call, Entry.val_type, fresh + 1)
           n       == fresh + Len(a.made)
           ext     == IF Entry.val_type = "x86_fp80"
                      THEN <<Inst(n + 1, "FPExt", NoName, <<call.ops[3]>>,
                                  Entry.val_type, c)>>
                      ELSE <<>>
           val     == IF ext = <<>> THEN call.ops[3] ELSE InstV(n + 1)
           store   == Inst(n + Len(ext) + 1, "Store", NoName, <<val, a.ptr>>,
                           "void", c)
           made    == a.made \o ext \o <<store>>
       IN /\ insts' = ReplaceAllUsesWith(InsertBefore(insts, c, made),
                                         InstV(c), mem_ptr)
          /\ fresh' = fresh + Len(made)
          /\ callers' = callers \ {c}
  /\ UNCHANGED <<popularity, pc, lower_i, erasing, erased_used>>
  /\ LowerFrame

\* Lines 383-385 and 424-426: one iteration of the second loop.  Erasing an
\* instruction that still has uses leaves them dangling.
EraseCallers ==
  /\ pc = "replace"
  /\ callers = {}
  /\ \E c \in erasing :
       /\ insts' = EraseFromParent(insts, c)
       /\ erased_used' = erased_used \cup
                           (IF UsersOf(insts, InstV(c)) # {} THEN {c} ELSE {})
       /\ erasing' = erasing \ {c}
  /\ UNCHANGED <<popularity, pc, lower_i, callers, fresh>>
  /\ LowerFrame

\* Lines 344-348: one iteration of the loop of ReplaceBarrier.
ReplaceBarrier ==
  /\ pc = "replace"
  /\ Entry.op = "barrier"
  /\ \E c \in callers :
       LET mem_ptr  == InstOf(insts, c).ops[1]
           replaced == ReplaceAllUsesWith(insts, InstV(c), mem_ptr)
       IN /\ insts' = EraseFromParent(replaced, c)
          /\ erased_used' = erased_used \cup
               (IF UsersOf(replaced, InstV(c)) # {} THEN {c} ELSE {})
          /\ callers' = callers \ {c}
  /\ UNCHANGED <<popularity, pc, lower_i, erasing, fresh>>
  /\ LowerFrame

\* The return of ReplaceMemReadOp, ReplaceMemWriteOp or ReplaceBarrier.
LowerReturn ==
  /\ pc = "replace"
  /\ callers = {}
  /\ erasing = {}
  /\ lower_i' = lower_i + 1
  /\ pc' = "lower"
  /\ UNCHANGED <<popularity, insts, fresh, callers, erasing, erased_used>>
  /\ LowerFrame

\* Line 467, line 639: LowerMemOps and RecoveryMemoryAccesses return.
LowerMemOps ==
  /\ pc = "lower"
  /\ lower_i > Len(LowerOrder)
  /\ pc' = "lowered"
  /\ UNCHANGED <<popularity, insts, fresh, lower_i, callers, erasing,
                 erased_used>>
  /\ LowerFrame

NextLower ==
  \/ CountGlobalPopularity
  \/ LowerBegin
  \/ ReplaceMemReadOp
  \/ ReplaceMemWriteOp
  \/ EraseCallers
  \/ ReplaceBarrier
  \/ LowerReturn
  \/ LowerMemOps

\* ------------------------------------------------------------------------
\* The blocks and global cells LowerMemOps is run over
\* ------------------------------------------------------------------------

\* The number of calls of a block.
MaxCalls == 2

\* The names the calls of a block are drawn from: reads and writes of an
\* integer and of an extended-precision value, a barrier, and an intrinsic
\* LowerMemOps does not handle.
kFetchAndAdd == <<"__remill", "_fetch_and_add_", "64">>

LoweredNames ==
  {LowerOrder[4].name, LowerOrder[10].name, LowerOrder[13].name,
   LowerOrder[14].name, LowerOrder[15].name}

\* The pointers a pointer-to-integer conversion is drawn from.
Pointers == {PtrArg("i8", 0), PtrArg("i64", 1), Global(0)}

\* The type of a call to `name`: reads return a value, every other
\* intrinsic returns the memory state.
ReturnTypeOf(name) ==
  IF name[2] # "_read_memory_" THEN "mem"
  ELSE IF name[3] = "f80" THEN "double" ELSE "i" \o name[3]

\* The calls a block `b` can be extended by: the memory state is the
\* argument or an earlier call that returns one, the address an argument, the
\* conversion instruction, the conversion of a global as a constant
\* expression (the block is of a function the program does not declare: no
\* constant expression of it was unfolded) or an earlier read, the value an
\* argument or an earlier read.
CallsAfter(b) ==
  LET id    == Len(b) + 1
      mems  == {MemArg} \cup
                 {InstV(b[k].id) : k \in {j \in DOMAIN b : b[j].ty = "mem"}}
      reads == {InstV(b[k].id) :
                  k \in {j \in DOMAIN b : b[j].op = "Call" /\ b[j].ty # "mem"}}
      addrs == {Arg, InstV(1), ConstExpr("PtrToInt", Global(0), "i64"),
                ConstExpr("PtrToInt", Global(1), "i64")} \cup reads
      vals  == {Arg} \cup reads
  IN {Inst(id, "Call", name, <<m, a>>, ReturnTypeOf(name), 0) :
        name \in {n \in LoweredNames : n[2] = "_read_memory_"},
        m \in mems, a \in addrs}
     \cup
     {Inst(id, "Call", name, <<m, a, v>>, "mem", 0) :
        name \in {n \in LoweredNames : n[2] = "_write_memory_"} \cup {kFetchAndAdd},
        m \in mems, a \in addrs, v \in vals}
     \cup
     {Inst(id, "Call", name, <<m>>, "mem", 0) :
        name \in {n \in LoweredNames : n[2] = "_barrier_"}, m \in mems}

RECURSIVE BlocksOf(_)
BlocksOf(n) ==
  IF n = 0
  THEN {<<Inst(1, "PtrToInt", NoName, <<P>>, "i64", 0)>> : P \in Pointers}
  ELSE UNION {{Append(b, c) : c \in CallsAfter(b)} : b \in BlocksOf(n - 1)}

\* A block: the conversion, MaxCalls calls and a return of one call.
LowerBlocks ==
  {Append(b, Inst(Len(b) + 1, "Ret", NoName, <<InstV(r)>>, "void", 0)) :
     b \in BlocksOf(MaxCalls), r \in 2..(MaxCalls + 1)}

\* A block of one read: its intrinsic may have a body.
ReadBlock ==
  << Inst(1, "PtrToInt", NoName, <<PtrArg("i8", 0)>>, "i64", 0),
     Inst(2, "Call", LowerOrder[4].name, <<MemArg, InstV(1)>>, "i64", 0),
     Inst(3, "Ret", NoName, <<InstV(2)>>, "void", 0) >>

\* The global buckets: up to two cells of function f1, four bytes each, at
\* the same address, adjacent, or apart.
GlobalAddrs == {4096, 4100, 4104}

GlobalBuckets ==
  {<<>>} \cup
  {<<MakeCell("i32", UserOf("f1", 1), a, FALSE, FALSE, FALSE, FALSE)>> :
     a \in GlobalAddrs} \cup
  {<<MakeCell("i32", UserOf("f1", 1), a, FALSE, FALSE, FALSE, FALSE),
     MakeCell("i32", UserOf("f1", 2), b, FALSE, FALSE, FALSE, FALSE)>> :
     a \in GlobalAddrs, b \in GlobalAddrs}

\* program.ForEachVariable: the variables the program declares.
DeclaredVariables == {{}, {[address |-> 4096, size |-> 4]}}

\* RecoveryMemoryAccesses at line 604: the frames are built (here of no
\* function), the scanner has returned.
InitLower ==
  /\ stack_cells = [f \in Funcs |-> <<>>]
  /\ sp = 0
  /\ popularity = CountPopularity(stack_cells)
  /\ todo = {}
  /\ func = "none"
  /\ min_stack_address = 0
  /\ max_stack_address = 0
  /\ running_addr = 0
  /\ types = <<>>
  /\ idx = 0
  /\ frame = [f \in Funcs |-> <<>>]
  /\ offset_cache = {}
  /\ operand = InitialOperands(stack_cells)
  /\ bodies = [f \in Funcs |-> <<>>]
  /\ scan_todo = {}
  /\ scan_func = "none"
  /\ ip = 0
  /\ calls = <<>>
  /\ ci = 0
  /\ scan_cell = NoCell
  /\ bases = <<>>
  /\ seen = {}
  /\ stack = <<>>
  /\ expanded = <<>>
  /\ emitted = <<>>
  /\ has_stack_pointer = TRUE
  /\ \/ /\ insts \in LowerBlocks
        /\ implemented = NoName
        /\ global_cells = [f \in Funcs |-> <<>>]
        /\ globals = {}
     \/ /\ insts = ReadBlock
        /\ implemented \in {NoName, LowerOrder[4].name}
        /\ \E g \in GlobalBuckets :
             global_cells = [f \in Funcs |-> IF f = "f1" THEN g ELSE <<>>]
        /\ globals \in DeclaredVariables
  /\ insts0 = insts
  /\ fresh = Len(insts)
  /\ lower_i = 1
  /\ callers = {}
  /\ erasing = {}
  /\ erased_used = {}
  /\ unfolding = <<>>
  /\ nearby = NearbyOf(Funcs, globals)
  /\ NoConvention
  /\ pc = "globals"

SpecLower == InitLower /\ [][NextLower]_vars


\* ------------------------------------------------------------------------
\* Properties of LowerMemOps
\* ------------------------------------------------------------------------

HandledNames == {LowerOrder[k].name : k \in DOMAIN LowerOrder}

\* The kind of an intrinsic: "read", "write" or "barrier".
KindOf(name) == LowerOrder[CHOOSE k \in DOMAIN LowerOrder : LowerOrder[k].name = name].op

\* The calls of the input that LowerMemOps handles.
HandledCalls ==
  {insts0[k].id :
     k \in {j \in DOMAIN insts0 :
              insts0[j].op = "Call" /\ insts0[j].callee \in HandledNames}}

IsHandledCall(v) == IsInstruction(v) /\ v[2] \in HandledCalls

\* The instructions of kind `op` made at the position of call c.
MadeAt(c, op) ==
  {insts[k].id : k \in {j \in DOMAIN insts : insts[j].op = op /\ insts[j].site = c}}

\* The value loaded for read call c: the load made at c, narrowed when a
\* truncation of it was made at c.
LoadedValue(c) ==
  IF Cardinality(MadeAt(c, "Load")) # 1 THEN NoValue
  ELSE LET ld == CHOOSE x \in MadeAt(c, "Load") : TRUE IN
         IF MadeAt(c, "FPTrunc") = {} THEN InstV(ld)
         ELSE LET t == CHOOSE x \in MadeAt(c, "FPTrunc") : TRUE IN
                IF InstOf(insts, t).ops = <<InstV(ld)>> THEN InstV(t) ELSE NoValue

\* What a value of the input stands for after lowering: a read call, the
\* value loaded for it; a write or barrier call, what its memory-state
\* argument stands for; anything else, itself.
RECURSIVE Replacement(_)
Replacement(v) ==
  IF ~IsHandledCall(v) THEN v
  ELSE LET c == InstOf(insts0, v[2]) IN
         IF KindOf(c.callee) = "read" THEN LoadedValue(c.id)
         ELSE Replacement(c.ops[1])

NoHandledCallRemains ==
  \A k \in DOMAIN insts :
    /\ ~(insts[k].op = "Call" /\ insts[k].callee \in HandledNames)
    /\ \A j \in DOMAIN insts[k].ops : ~IsHandledCall(insts[k].ops[j])

UsesReplaced ==
  \A k \in DOMAIN insts0 :
    insts0[k].id \notin HandledCalls =>
      /\ insts0[k].id \in Ids(insts)
      /\ InstOf(insts, insts0[k].id).ops =
           [j \in DOMAIN insts0[k].ops |-> Replacement(insts0[k].ops[j])]

\* The load of read call c stands where c stood among the instructions of
\* the input that remain.
LoadsInPlace ==
  \A c \in HandledCalls :
    KindOf(InstOf(insts0, c).callee) = "read" =>
      /\ Cardinality(MadeAt(c, "Load")) = 1
      /\ \A x \in MadeAt(c, "Load") : \A o \in Ids(insts0) \cap Ids(insts) :
           (PositionOf(insts0, o) < PositionOf(insts0, c))
             <=> (PositionOf(insts, o) < PositionOf(insts, x))

\* C11: once LowerMemOps has returned, no call to a read, write or barrier
\* intrinsic it handles remains, nor any use of one; every use of a read call
\* is the value loaded at the call's position, every use of a write or
\* barrier call is that call's memory-state argument (followed through
\* chains of calls); and no call is ever erased while it has uses.
C11_LoweringLeavesNoCall ==
  /\ erased_used = {}
  /\ pc = "lowered" => (NoHandledCallRemains /\ UsesReplaced /\ LoadsInPlace)

\* A lowered block of a chain: a read call that had a use and whose
\* memory-state argument was another handled call.
C11_Witness ==
  /\ pc = "lowered"
  /\ \E c \in HandledCalls :
       /\ KindOf(InstOf(insts0, c).callee) = "read"
       /\ UsersOf(insts0, InstV(c)) # {}
       /\ IsHandledCall(InstOf(insts0, c).ops[1])

\* The pointer operand of the load or store made at call c.
AccessPointer(seq, c) ==
  LET a == seq[CHOOSE k \in DOMAIN seq :
                 seq[k].site = c /\ seq[k].op \in {"Load", "Store"}] IN
    a.ops[Len(a.ops)]

\* A pointer-to-integer conversion, as an instruction or as a constant
\* expression, and the pointer it converts.
IsPtrToInt(seq, v) ==
  \/ IsInst(seq, v, "PtrToInt")
  \/ IsConstantExpr(v) /\ v[2] = "PtrToInt"

ConvertedPointer(seq, v) ==
  IF IsConstantExpr(v) THEN v[3] ELSE InstOf(seq, v[2]).ops[1]

\* p reinterprets P as a pointer of type ty: P itself when it has the type.
IsBitCastOf(seq, p, P, ty) ==
  \/ p = P /\ PointerTypeOf(P) = ty
  \/ p = ConstExpr("BitCast", P, ty)
  \/ /\ IsInst(seq, p, "BitCast")
     /\ InstOf(seq, p[2]).ops = <<P>>
     /\ InstOf(seq, p[2]).ty = ty

\* p is an integer-to-pointer conversion.
IsIntToPtr(seq, p) ==
  \/ IsInst(seq, p, "IntToPtr")
  \/ IsConstantExpr(p) /\ p[2] = "IntToPtr"

\* C12: when a read or write call is lowered and its address argument is a
\* pointer-to-integer conversion of a pointer P, the load or store goes
\* through a bitcast of P to a pointer to the value type in P's address
\* space and no integer-to-pointer conversion is made; otherwise it goes
\* through an integer-to-pointer conversion of the address made at the call.
C12_BitCastOfConvertedPointer ==
  [][(pc = "replace" /\ Entry.op # "barrier") =>
       \A c \in callers \ callers' :
         LET addr == InstOf(insts, c).ops[2]
             p    == AccessPointer(insts', c) IN
           IF IsPtrToInt(insts, addr) THEN
             LET P == ConvertedPointer(insts, addr) IN
               /\ IsBitCastOf(insts', p, P,
                              <<Entry.val_type, PointerTypeOf(P)[2]>>)
               /\ \A k \in DOMAIN insts' :
                    insts'[k].site = c => insts'[k].op # "IntToPtr"
           ELSE
             /\ IsInst(insts', p, "IntToPtr")
             /\ InstOf(insts', p[2]).ops = <<addr>>
             /\ InstOf(insts', p[2]).site = c]_vars

\* ------------------------------------------------------------------------
\* Global cells
\* ------------------------------------------------------------------------

\* The bytes the global cells cover.
GlobalBytes ==
  UNION {c.address_const..(c.address_const + c.size - 1) :
           c \in UNION {Range(global_cells[f]) : f \in Funcs}}

\* The maximal runs of bytes covered by global cells: cells whose ranges
\* touch or overlap are in one run, a gap ends a run.
GlobalRuns ==
  {[address |-> b,
    size |-> 1 + Cardinality({x \in GlobalBytes :
                                /\ x > b
                                /\ \A y \in b..x : y \in GlobalBytes})] :
     b \in {x \in GlobalBytes : x - 1 \notin GlobalBytes}}

\* C17: when RecoveryMemoryAccesses has returned, each run of global cells
\* that touch or overlap is one global of the module, at the address of the
\* run and of its size: cells at 4096 and 4100 of size 4 are one global of
\* size 8 at 4096, cells at 4096 and 4104 are two globals.
C17_GlobalCellsMerged ==
  pc = "lowered" => \A g \in GlobalRuns : g \in globals

\* ------------------------------------------------------------------------
\* UnfoldConstantExpressions
\* ------------------------------------------------------------------------

\* A constant expression of two operands.
ConstExpr2(op, a, b, ty) == <<"ce", op, a, ty, b>>

\* The operands of a constant expression.
OperandsOfExpr(ce) == IF Len(ce) = 5 THEN <<ce[3], ce[5]>> ELSE <<ce[3]>>

\* ce->getAsInstruction()
getAsInstruction(ce, id, site) ==
  Inst(id, ce[2], NoName, OperandsOfExpr(ce), ce[4], site)

\* inst->operands(): of a call, the arguments and then the called value.
operands(i) == IF i.op = "Call" THEN i.ops \o <<i.callee>> ELSE i.ops

\* A use.set that is left out.
SetOperand_skip(seq, id, k, v) == seq

\* use.set(v) on operand k of instruction `id`.
SetOperand(seq, id, k, v) ==
  [j \in DOMAIN seq |->
     IF seq[j].id # id THEN seq[j]
     ELSE IF seq[j].op = "Call" /\ k = Len(seq[j].ops) + 1
       THEN [seq[j] EXCEPT !.callee = v]
     ELSE [seq[j] EXCEPT !.ops[k] = v]]

\* The innermost activation: the instruction, the loop (1 over operands(),
\* 2 over arg_operands()) and the position in it.
Unfolding == unfolding[Len(unfolding)]
UnfoldingInst == InstOf(insts, Unfolding.inst)
UnfoldingUses ==
  IF Unfolding.loop = 1 THEN operands(UnfoldingInst) ELSE UnfoldingInst.ops

UnfoldFrame ==
  UNCHANGED <<stack_cells, builder_vars, scanner_vars, has_stack_pointer,
              globals, insts0, implemented, lower_i, callers, erasing,
              erased_used, nearby, convention_vars>>

\* Lines 65-71 and 79-80, 83-84: one iteration of a loop over the uses.  A
\* constant expression becomes an instruction before `inst` and is unfolded
\* in turn; use.set follows the return of that call.
UnfoldOperand ==
  /\ pc = "unfold"
  /\ unfolding # <<>>
  /\ Unfolding.k <= Len(UnfoldingUses)
  /\ LET val == UnfoldingUses[Unfolding.k] IN
       IF IsConstantExpr(val) THEN
         /\ insts' = InsertBefore(insts, Unfolding.inst,
                                  <<getAsInstruction(val, fresh + 1,
                                                     Unfolding.inst)>>)
         /\ fresh' = fresh + 1
         /\ unfolding' = Append(unfolding,
                                [inst |-> fresh + 1, loop |-> 1, k |-> 1])
       ELSE
         /\ unfolding' = [unfolding EXCEPT ![Len(unfolding)].k = @ + 1]
         /\ UNCHANGED <<insts, fresh>>
  /\ UNCHANGED pc
  /\ UnfoldFrame

\* Lines 82-83: after the operands of a call, its arguments once more.
UnfoldArgOperands ==
  /\ pc = "unfold"
  /\ unfolding # <<>>
  /\ Unfolding.loop = 1
  /\ Unfolding.k > Len(UnfoldingUses)
  /\ UnfoldingInst.op = "Call"
  /\ unfolding' = [unfolding EXCEPT ![Len(unfolding)] =
                     [inst |-> @.inst, loop |-> 2, k |-> 1]]
  /\ UNCHANGED <<pc, insts, fresh>>
  /\ UnfoldFrame

\* Lines 72 and 87: UnfoldConstantExpressions(inst) returns; in the caller
\* use.set(ce_inst) and the next use.
UnfoldReturn ==
  /\ pc = "unfold"
  /\ unfolding # <<>>
  /\ Unfolding.k > Len(UnfoldingUses)
  /\ Unfolding.loop = 2 \/ UnfoldingInst.op # "Call"
  /\ IF Len(unfolding) = 1 THEN
       /\ unfolding' = <<>>
       /\ pc' = "unfolded"
       /\ UNCHANGED insts
     ELSE
       LET caller == unfolding[Len(unfolding) - 1] IN
         /\ insts' = SetOperand(insts, caller.inst, caller.k, InstV(Unfolding.inst))
         /\ unfolding' = [SubSeq(unfolding, 1, Len(unfolding) - 1)
                            EXCEPT ![Len(unfolding) - 1].k = @ + 1]
         /\ UNCHANGED pc
  /\ UNCHANGED fresh
  /\ UnfoldFrame

NextUnfold ==
  \/ UnfoldOperand
  \/ UnfoldArgOperands
  \/ UnfoldReturn

\* The constant expressions of the inputs, nested up to three deep, and the
\* operands an instruction is drawn with.
kPtrToInt == ConstExpr("PtrToInt", Global(0), "i64")
kAdd == ConstExpr2("Add", kPtrToInt, Const(8), "i64")
kAddBoth == ConstExpr2("Add", kPtrToInt, kPtrToInt, "i64")
kIntToPtr == ConstExpr("IntToPtr", kAdd, <<"i8", 0>>)
kCallee == ConstExpr("BitCast", <<"func", LowerOrder[4].name>>, <<"fn", 0>>)

UnfoldValues == {Arg, InstV(1), Const(8), kPtrToInt, kAdd, kAddBoth, kIntToPtr}

\* The instruction UnfoldConstantExpressions is applied to: a binary
\* operator or a call, direct or through a cast of the function.
UnfoldTargets ==
  {Inst(2, "Add", NoName, <<a, b>>, "i64", 0) :
     a \in UnfoldValues, b \in UnfoldValues}
  \cup
  {Inst(2, "Call", f, <<MemArg, a, b>>, "mem", 0) :
     f \in {LowerOrder[10].name, kCallee},
     a \in UnfoldValues, b \in UnfoldValues}

\* Line 199: FindMemoryReferences applies UnfoldConstantExpressions to an
\* instruction of a block.
InitUnfold ==
  /\ stack_cells = [f \in Funcs |-> <<>>]
  /\ BuilderIdle
  /\ ScannerIdle
  /\ has_stack_pointer = TRUE
  /\ globals = {}
  /\ \E t \in UnfoldTargets :
       insts = << Inst(1, "PtrToInt", NoName, <<PtrArg("i8", 0)>>, "i64", 0),
                  t,
                  Inst(3, "Ret", NoName, <<InstV(2)>>, "void", 0) >>
  /\ insts0 = insts
  /\ fresh = Len(insts)
  /\ implemented = NoName
  /\ lower_i = 0
  /\ callers = {}
  /\ erasing = {}
  /\ erased_used = {}
  /\ unfolding = <<[inst |-> 2, loop |-> 1, k |-> 1]>>
  /\ nearby = NearbyOf({"f1"}, globals)
  /\ NoConvention
  /\ pc = "unfold"

SpecUnfold == InitUnfold /\ [][NextUnfold]_vars

\* The instructions UnfoldConstantExpressions inserted.
Inserted == Ids(insts) \ Ids(insts0)

NoConstantExprOperand ==
  \A k \in DOMAIN insts :
    insts[k].id \in Inserted \cup {2} =>
      \A j \in DOMAIN operands(insts[k]) : ~IsConstantExpr(operands(insts[k])[j])

\* Every inserted instruction is before its user and before the
\* instruction it was inserted for, and has a user.
InsertedBeforeUser ==
  \A x \in Inserted :
    /\ PositionOf(insts, x) < PositionOf(insts, 2)
    /\ \E k \in DOMAIN insts : InstV(x) \in Range(operands(insts[k]))
    /\ \A k \in DOMAIN insts :
         InstV(x) \in Range(operands(insts[k])) => PositionOf(insts, x) < k

\* The value an operand computes, inserted instructions folded back.
RECURSIVE Folded(_)
Folded(v) ==
  IF ~(IsInstruction(v) /\ v[2] \in Inserted) THEN v
  ELSE LET i == InstOf(insts, v[2]) IN
         IF Len(i.ops) = 2
         THEN ConstExpr2(i.op, Folded(i.ops[1]), Folded(i.ops[2]), i.ty)
         ELSE ConstExpr(i.op, Folded(i.ops[1]), i.ty)

\* No instruction is removed or reordered, instructions other than the
\* target are as they were, and of the target only operands that were
\* constant expressions differ.
PurelyAdditive ==
  /\ \A k, l \in DOMAIN insts0 :
       /\ insts0[k].id \in Ids(insts)
       /\ k < l => PositionOf(insts, insts0[k].id) < PositionOf(insts, insts0[l].id)
  /\ \A k \in DOMAIN insts0 :
       LET now == InstOf(insts, insts0[k].id) IN
         /\ insts0[k].id # 2 => now = insts0[k]
         /\ now.op = insts0[k].op /\ now.ty = insts0[k].ty
         /\ Len(operands(now)) = Len(operands(insts0[k]))
         /\ \A j \in DOMAIN operands(now) :
              ~IsConstantExpr(operands(insts0[k])[j]) =>
                operands(now)[j] = operands(insts0[k])[j]

\* C16: after UnfoldConstantExpressions(inst) no operand of inst (the
\* arguments and the called value of a call included) nor of an inserted
\* instruction is a constant expression; every inserted instruction stands
\* before its user and before inst; and throughout, no instruction is
\* removed and operands that are no constant expressions stay as they were.
C16_UnfoldPostconditions ==
  /\ pc \in {"unfold", "unfolded"} => PurelyAdditive
  /\ pc = "unfolded" =>
       /\ NoConstantExprOperand
       /\ InsertedBeforeUser
       /\ \A j \in DOMAIN operands(insts0[2]) :
            Folded(operands(InstOf(insts, 2))[j]) = operands(insts0[2])[j]

\* A call through a cast of the function, with an argument nested three
\* deep, unfolded.
C16_Witness ==
  /\ pc = "unfolded"
  /\ insts0[2].callee = kCallee
  /\ kIntToPtr \in Range(insts0[2].ops)
  /\ Cardinality(Inserted) >= 4

\* ------------------------------------------------------------------------
\* RecoveryMemoryAccesses from its first line to its last
\* ------------------------------------------------------------------------

\* The operands that hold the address constant of a stack cell, before any
\* is rewritten.
OperandsOfCells(cells_of) ==
  LET cs == UNION {Range(cells_of[f]) : f \in Funcs} IN
    [u \in {c.user : c \in cs} |->
       [kind |-> "const",
        value |-> (CHOOSE c \in cs : c.user = u).address_const,
        func |-> "none", index |-> 0]]

\* Lines 496-501: ForEachVariable enters the variables the program declares
\* into `nearby`; the loop over stack_cells is ahead.
ForEachVariable ==
  /\ pc = "scanned"
  /\ \E gs \in DeclaredVariables :
       /\ globals' = gs
       /\ nearby' = nearby \cup {VariableKey(g) : g \in gs}
  /\ todo' = Keys(stack_cells)
  /\ operand' = OperandsOfCells(stack_cells)
  /\ pc' = "popularity"
  /\ UNCHANGED <<stack_cells, sp, popularity, func, min_stack_address,
                 max_stack_address, running_addr, types, idx, frame,
                 offset_cache, scanner_vars, has_stack_pointer, lower_vars,
                 unfolding, convention_vars>>

NextPipeline ==
  \/ Next
  \/ ForEachVariable
  \/ NextFrame
  \/ NextLower

\* The functions the program declares: one call with a leaf address, or two
\* casts of leaves to pointers and a call of memcpy with one of them.
PipelineCalls ==
  {<<i1>> : i1 \in Calls(1, IntrinsicNames \cup {kMemcpy, NoName},
                         Leaves, {"i64"})}

PipelineCasts ==
  {b \in ComputedAccesses :
     b[1].op = "IntToPtr" /\ b[2].op = "IntToPtr" /\ b[3].callee = kMemcpy}

\* A block of the module with a barrier, a write after it and a read.
PipelineBlock ==
  << Inst(1, "PtrToInt", NoName, <<PtrArg("i8", 0)>>, "i64", 0),
     Inst(2, "Call", LowerOrder[15].name, <<MemArg>>, "mem", 0),
     Inst(3, "Call", LowerOrder[10].name, <<InstV(2), InstV(1), Arg>>, "mem", 0),
     Inst(4, "Call", LowerOrder[4].name, <<InstV(3), Arg>>, "i64", 0),
     Inst(5, "Ret", NoName, <<InstV(4)>>, "void", 0) >>

\* Line 473: RecoveryMemoryAccesses is entered.
InitPipeline ==
  /\ \E b1 \in PipelineCalls \cup PipelineCasts, b2 \in PipelineCalls :
       bodies = [f \in Funcs |-> IF f = "f1" THEN b1 ELSE b2]
  /\ stack_cells = [f \in Funcs |-> <<>>]
  /\ global_cells = [f \in Funcs |-> <<>>]
  /\ scan_todo = Funcs
  /\ scan_func = "none"
  /\ ip = 0
  /\ calls = <<>>
  /\ ci = 0
  /\ scan_cell = NoCell
  /\ bases = <<>>
  /\ seen = {}
  /\ stack = <<>>
  /\ expanded = <<>>
  /\ emitted = <<>>
  /\ sp \in StackPointers
  /\ popularity = <<>>
  /\ todo = {}
  /\ func = "none"
  /\ min_stack_address = 0
  /\ max_stack_address = 0
  /\ running_addr = 0
  /\ types = <<>>
  /\ idx = 0
  /\ frame = [f \in Funcs |-> <<>>]
  /\ offset_cache = {}
  /\ operand = <<>>
  /\ has_stack_pointer = TRUE
  /\ globals = {}
  /\ insts = PipelineBlock
  /\ insts0 = insts
  /\ fresh = Len(insts)
  /\ implemented = NoName
  /\ lower_i = 1
  /\ callers = {}
  /\ erasing = {}
  /\ erased_used = {}
  /\ unfolding = <<>>
  /\ nearby = {}
  /\ NoConvention
  /\ pc = "scan_pick"

SpecPipeline == InitPipeline /\ [][NextPipeline]_vars

\* The positions of RecoveryMemoryAccesses by phase.
ScanPcs == {"scan_pick", "scan", "resolve_inst", "resolve_arg", "sweep"}
FramePcs == {"frames", "layout", "rewrite"}
LowerPcs == {"lower", "replace", "lowered", "check_failed"}

\* s and t hold the same cells, each as often.
SameCells(s, t) ==
  /\ Len(s) = Len(t)
  /\ \A c \in Range(s) \cup Range(t) :
       Cardinality({i \in DOMAIN s : s[i] = c})
         = Cardinality({i \in DOMAIN t : t[i] = c})

\* The cells the scan pushed for function f.
EmittedFor(f) ==
  {emitted[k].cell : k \in {j \in DOMAIN emitted : emitted[j].func = f}}

\* While frames are sorted, laid out and rewritten: every function was
\* scanned and all its cells are in the buckets, `nearby` holds every
\* declared function and variable, the popularity table counts every stack
\* cell.
PopulatedBeforeFrames ==
  pc \in FramePcs =>
    /\ scan_todo = {}
    /\ \A f \in Funcs :
         Range(stack_cells[f]) \cup Range(global_cells[f]) = EmittedFor(f)
    /\ nearby = NearbyOf(Funcs, globals)
    /\ popularity = CountPopularity(stack_cells)

\* While memory operations are lowered every function with stack cells has
\* its frame and its rewrites; before, the block is as it was.
FramesBeforeLowering ==
  /\ pc \in LowerPcs => (todo = {} /\ Processed = Keys(stack_cells))
  /\ pc \notin LowerPcs => insts = insts0

\* C21: the scan of every function, `nearby` and the popularity table of
\* the stack cells are complete before a frame is sorted or rewritten; all
\* frames and rewrites are complete before LowerMemOps starts and none
\* happens after; once the scan is over no bucket gains or loses a cell.
C21_PhaseOrder ==
  /\ [](PopulatedBeforeFrames /\ FramesBeforeLowering)
  /\ [][/\ pc \in LowerPcs => UNCHANGED <<frame, operand, offset_cache>>
        /\ pc \notin ScanPcs =>
             \A f \in Funcs :
               /\ SameCells(stack_cells[f], stack_cells'[f])
               /\ global_cells'[f] = global_cells[f]]_vars

\* The whole of RecoveryMemoryAccesses has run on a program whose two
\* functions have stack cells and one a global cell.
C21_Witness ==
  /\ pc = "lowered"
  /\ \A f \in Funcs : frame[f] # <<>>
  /\ \E f \in Funcs : global_cells[f] # <<>>
  /\ insts # insts0

\* ------------------------------------------------------------------------
\* The layout loop over cells of every recorded size
\* ------------------------------------------------------------------------

\* Cells at two addresses of the types i64, [256 x i8] (larger than the
\* addresses) and [0 x i8] (of size 0).
SizeKinds == {200, 204} \X {"i64", "a256", "a0"}

SizeBuckets(n) ==
  {ks \in [1..n -> SizeKinds] : \A i \in 1..(n - 1) : KindGE(ks[i], ks[i + 1])}

InitFrameSizes ==
  /\ \E n1, n2 \in 0..MaxCells :
       /\ n1 + n2 <= MaxCells
       /\ \E k1 \in SizeBuckets(n1), k2 \in SizeBuckets(n2) :
            stack_cells = [f \in Funcs |->
                             IF f = "f1" THEN BucketOf(f, k1) ELSE BucketOf(f, k2)]
  /\ sp \in StackPointers
  /\ popularity = <<>>
  /\ pc = "popularity"
  /\ todo = Keys(stack_cells)
  /\ func = "none"
  /\ min_stack_address = 0
  /\ max_stack_address = 0
  /\ running_addr = 0
  /\ types = <<>>
  /\ idx = 0
  /\ frame = [f \in Funcs |-> <<>>]
  /\ offset_cache = {}
  /\ operand = InitialOperands(stack_cells)
  /\ ScannerIdle
  /\ ModuleIdle
  /\ nearby = NearbyOf(Funcs, globals)
  /\ NoConvention

SpecFrameSizes == InitFrameSizes /\ [][NextFrame]_vars

\* No unsigned subtraction of the layout of f wraps around: the lowest
\* address is at least the redzone and every cell's address at least its
\* size.
NoWrap(f) ==
  /\ MinAddressOf(f) >= Redzone
  /\ \A c \in Range(stack_cells[f]) : c.address_const >= c.size

\* Cell k of f has a typed entry of its own with a padding entry before it.
PaddedEntry(f, k) ==
  \E i \in DOMAIN frame[f] :
    /\ i > 1
    /\ frame[f][i].kind = "cell"
    /\ frame[f][i].cell = k
    /\ frame[f][i - 1].kind = "pad"

\* C22 as claimed: in a layout without unsigned wrap-around the skip branch
\* is never taken and every cell, also one that overlaps or shares the
\* address of an earlier one, gets a typed entry of its own preceded by a
\* padding entry.
C22_EveryCellPadded ==
  /\ (pc = "layout" /\ NoWrap(func)) => ~AtSkippedCell
  /\ \A f \in Processed :
       NoWrap(f) => \A k \in DOMAIN stack_cells[f] : PaddedEntry(f, k)

\* Cell k of f has a typed entry of its own.
OwnEntry(f, k) ==
  Cardinality({i \in DOMAIN frame[f] :
                 frame[f][i].kind = "cell" /\ frame[f][i].cell = k}) = 1

\* Cell k of f follows a cell of size zero at its own address.
AfterEmptyCell(f, k) ==
  /\ k > 1
  /\ stack_cells[f][k - 1].size = 0
  /\ stack_cells[f][k - 1].address_const = stack_cells[f][k].address_const

\* C22: in a layout without unsigned wrap-around the skip branch is never
\* taken and every cell, also one that overlaps or shares the address of an
\* earlier one, gets a typed entry of its own; a padding entry precedes it
\* unless the cell follows a cell of size zero at the same address.
C22_NoSkipWithoutWrap ==
  /\ (pc = "layout" /\ NoWrap(func)) => ~AtSkippedCell
  /\ \A f \in Processed :
       NoWrap(f) =>
         \A k \in DOMAIN stack_cells[f] :
           /\ OwnEntry(f, k)
           /\ PaddedEntry(f, k) \/ AfterEmptyCell(f, k)

\* A function laid out without wrap-around: a cell that shares the address
\* of the cell before it has its padded entry, and a cell after a cell of
\* size zero has its entry without padding.
C22_Witness ==
  \E f \in Processed :
    /\ NoWrap(f)
    /\ \E k \in DOMAIN stack_cells[f] :
         /\ k > 1
         /\ stack_cells[f][k - 1].address_const = stack_cells[f][k].address_const
         /\ stack_cells[f][k - 1].size > 0
         /\ PaddedEntry(f, k)
    /\ \E k \in DOMAIN stack_cells[f] : AfterEmptyCell(f, k) /\ ~PaddedEntry(f, k)

\* ------------------------------------------------------------------------
\* Calling conventions: register constraints
\* ------------------------------------------------------------------------

\* SizeConstraint and TypeConstraint are bit masks; a mask is the set of its
\* bits, and `a & b` is non-zero when the sets meet.
kBits == {8, 16, 32, 64, 80, 128, 256, 512}
kMinBit32 == {b \in kBits : b >= 32}
kMinBit64 == {b \in kBits : b >= 64}
kMinBit80 == {b \in kBits : b >= 80}
kMaxBit32 == {b \in kBits : b <= 32}
kMaxBit64 == {b \in kBits : b <= 64}
kMaxBit80 == {b \in kBits : b <= 80}
kMaxBit128 == {b \in kBits : b <= 128}
kMaxBit256 == {b \in kBits : b <= 256}
kMaxBit512 == kBits
kTypeInt == {"int"}
kTypeFloat == {"float"}
kTypeIntegral == {"int", "ptr"}
kTypeFloatOrVec == {"float", "vec"}

\* A variant of a register constraint.
Variant(name, size, type) ==
  [register_name |-> name, size_constraint |-> size, type_constraint |-> type]

\* The constraint of a general-purpose register and its 32-bit half, of a
\* vector register, of an x87 register.
GprConstraint(half, full) ==
  [variants |-> << Variant(<<half, 0>>, kMaxBit32, kTypeIntegral),
                   Variant(<<full, 0>>, kMaxBit64, kTypeIntegral) >>]
XmmConstraint(n) ==
  [variants |-> << Variant(<<"XMM", n>>, kMaxBit128, kTypeFloatOrVec) >>]
St0Constraint ==
  [variants |-> << Variant(<<"ST", 0>>, kMaxBit80, kTypeFloat) >>]

\* ApplyX86Ext(constraints, ext): the vector registers gain their 256-bit
\* (AVX) or 512-bit (AVX512) variant.
ApplyX86Ext(constraints, ext) ==
  [i \in DOMAIN constraints |->
     IF constraints[i].variants[1].register_name[1] = "XMM"
       THEN [variants |->
               Append(constraints[i].variants,
                      Variant(<<IF ext = "AVX" THEN "YMM" ELSE "ZMM",
                                constraints[i].variants[1].register_name[2]>>,
                              IF ext = "AVX" THEN kMaxBit256 ELSE kMaxBit512,
                              kTypeFloatOrVec))]
       ELSE constraints[i]]

\* type.getTypeID()
getTypeID(t) ==
  CASE t \in {"i8", "i32", "i64"} -> "IntegerTyID"
    [] t = "float"    -> "FloatTyID"
    [] t = "double"   -> "DoubleTyID"
    [] t = "ptr"      -> "PointerTyID"
    [] t = "x86_fp80" -> "X86_FP80TyID"
    [] t = "x86_mmx"  -> "X86_MMXTyID"
    [] t = "struct"   -> "StructTyID"
    [] t = "void"     -> "VoidTyID"
    [] OTHER          -> "ArrayTyID"

\* A register is a name and a number. No register (a null pointer in a
\* declaration, or none asked for yet); TryRegisterAllocate returned nullptr;
\* TryRegisterAllocate ended in LOG(FATAL).
NoRegister == <<"none", 0>>
Nullptr == <<"nullptr", 0>>
Aborted == <<"fatal", 0>>

\* A declaration bound to a register, to memory at an offset of a register.
RegDecl(t, r) ==
  [type |-> t, reg |-> r, mem_reg |-> NoRegister, mem_offset |-> 0]
MemDecl(t, r, off) ==
  [type |-> t, reg |-> NoRegister, mem_reg |-> r, mem_offset |-> off]

\* The declaration before AllocateSignature fills it in.
EmptyDecl ==
  [returns |-> <<>>, params |-> <<>>, injected_sret |-> FALSE,
   return_stack_pointer |-> NoRegister, return_stack_pointer_offset |-> 0]

\* ------------------------------------------------------------------------
\* X86_C
\* ------------------------------------------------------------------------

kInvalidArchitecture == "Invalid architecture for X86_C "
kUnknownReturnType == "Encountered an unknown return type"

\* Lines 656-678, X86_C::X86_C: the switch over the architecture name. The
\* case of kArchX86_AVX512 has no break and runs on into the default case.
X86_C ==
  /\ pc = "construct"
  /\ CASE arch_name = "x86" ->
            /\ UNCHANGED <<parameter_register_constraints, fatal>>
            /\ pc' = "bind_returns"
       [] arch_name = "x86_avx" ->
            /\ parameter_register_constraints' =
                 ApplyX86Ext(parameter_register_constraints, "AVX")
            /\ UNCHANGED fatal
            /\ pc' = "bind_returns"
       [] arch_name = "x86_avx512" ->
            /\ parameter_register_constraints' =
                 ApplyX86Ext(parameter_register_constraints, "AVX512")
            /\ fatal' = kInvalidArchitecture
            /\ pc' = "fatal"
       [] OTHER ->
            /\ UNCHANGED parameter_register_constraints
            /\ fatal' = kInvalidArchitecture
            /\ pc' = "fatal"
  /\ UNCHANGED <<stack_cells, builder_vars, scanner_vars, block_vars, nearby,
                 arch_name, return_register_constraints, function, fdecl,
                 reserved, arg_i, reg, stack_offset>>

\* The first argument of the function that carries the sret attribute, or 0.
StructRetArg(f) ==
  IF f.sret = {} THEN 0 ELSE CHOOSE i \in f.sret : \A j \in f.sret : i <= j

\* Lines 718-783, X86_C::BindReturnValues. Whether the AllocationState finds
\* a split of a struct over the return registers is decided outside this
\* file: both outcomes occur.
X86_C_BindReturnValues ==
  /\ pc = "bind_returns"
  /\ LET ret_type == function.ret
         id == getTypeID(ret_type)
         one(r) == /\ fdecl' = [fdecl EXCEPT !.returns = <<RegDecl(ret_type, r)>>,
                                             !.injected_sret = FALSE]
                   /\ pc' = "bind_params"
                   /\ UNCHANGED fatal
     IN  IF StructRetArg(function) # 0
           THEN /\ fdecl' = [fdecl EXCEPT
                     !.returns = <<RegDecl(function.args[StructRetArg(function)],
                                           <<"EAX", 0>>)>>,
                     !.injected_sret = FALSE]
                /\ pc' = "bind_params"
                /\ UNCHANGED fatal
           ELSE CASE id \in {"IntegerTyID", "PointerTyID"} -> one(<<"EAX", 0>>)
                  [] id \in {"FloatTyID", "DoubleTyID", "X86_FP80TyID"} -> one(<<"ST", 0>>)
                  [] id = "X86_MMXTyID" -> one(<<"MM", 0>>)
                  [] id = "StructTyID" ->
                       \E mapping \in BOOLEAN :
                         /\ fdecl' = [fdecl EXCEPT
                              !.returns = <<RegDecl(ret_type,
                                              IF mapping THEN <<"packed", 0>>
                                              ELSE <<"EAX", 0>>)>>,
                              !.injected_sret = ~mapping]
                         /\ pc' = "bind_params"
                         /\ UNCHANGED fatal
                  [] OTHER ->
                       /\ fatal' = kUnknownReturnType
                       /\ pc' = "fatal"
                       /\ UNCHANGED fdecl
  /\ UNCHANGED <<stack_cells, builder_vars, scanner_vars, block_vars, nearby,
                 arch_name, parameter_register_constraints,
                 return_register_constraints, function, reserved, arg_i, reg,
                 stack_offset>>

\* The offsets of the arguments from position i on, the first at off.
RECURSIVE StackParams(_, _, _)
StackParams(args, i, off) ==
  IF i > Len(args) THEN <<>>
  ELSE <<MemDecl(args[i], <<"ESP", 0>>, off)>>
         \o StackParams(args, i + 1, off + getTypeAllocSize(args[i]))

\* Lines 785-825, X86_C::BindParameters: every parameter is on the stack,
\* the first at [esp + 4], behind an injected sret parameter if there is one.
X86_C_BindParameters ==
  /\ pc = "bind_params"
  /\ LET first == IF fdecl.injected_sret
                    THEN <<MemDecl(function.ret, <<"ESP", 0>>, 4)>> ELSE <<>>
         start == IF fdecl.injected_sret
                    THEN 4 + getTypeAllocSize(function.ret) ELSE 4
         rest  == StackParams(function.args, 1, start)
     IN  /\ fdecl' = [fdecl EXCEPT !.params = first \o rest]
         /\ stack_offset' =
              IF rest = <<>> THEN start
              ELSE rest[Len(rest)].mem_offset
                     + getTypeAllocSize(rest[Len(rest)].type)
  /\ pc' = "bind_rsp"
  /\ UNCHANGED <<stack_cells, builder_vars, scanner_vars, block_vars, nearby,
                 arch_name, parameter_register_constraints,
                 return_register_constraints, function, reserved, arg_i, reg,
                 fatal>>

\* Lines 696-716, X86_C::BindReturnStackPointer.
X86_C_BindReturnStackPointer ==
  /\ pc = "bind_rsp"
  /\ fdecl' = [fdecl EXCEPT
       !.return_stack_pointer = <<"ESP", 0>>,
       !.return_stack_pointer_offset =
          IF 1 \in function.sret \/ fdecl.injected_sret THEN 8 ELSE 4]
  /\ pc' = "bound"
  /\ UNCHANGED <<stack_cells, builder_vars, scanner_vars, block_vars, nearby,
                 arch_name, parameter_register_constraints,
                 return_register_constraints, function, reserved, arg_i, reg,
                 stack_offset, fatal>>

NextX86_C ==
  \/ X86_C
  \/ X86_C_BindReturnValues
  \/ X86_C_BindParameters
  \/ X86_C_BindReturnStackPointer

\* The architecture names of remill.
ArchNames == {"x86", "x86_avx", "x86_avx512", "amd64", "amd64_avx",
              "amd64_avx512", "aarch64", "invalid"}

\* The names X86_C supports.
X86Names == {"x86", "x86_avx", "x86_avx512"}

\* The register constraints of X86_C before an extension is applied.
X86ParameterConstraints == << XmmConstraint(0), XmmConstraint(1) >>
X86ReturnConstraints == << GprConstraint("EAX", "EAX"), St0Constraint >>

\* Functions of up to MaxParams parameters; the sret attribute is on no
\* parameter, or on one pointer parameter.
MaxParams == 2
X86Functions ==
  UNION {
    {[ret |-> r, args |-> a, sret |-> sr] :
       r \in {"i32", "ptr", "float", "double", "x86_fp80", "struct",
              "x86_mmx", "void"},
       sr \in {{}} \cup {{i} : i \in {j \in DOMAIN a : a[j] = "ptr"}}} :
    a \in UNION {[1..n -> {"i32", "i64", "ptr"}] : n \in 0..MaxParams}}

InitX86_C ==
  /\ stack_cells = [f \in Funcs |-> <<>>]
  /\ BuilderIdle
  /\ ScannerIdle
  /\ ModuleIdle
  /\ nearby = {}
  /\ arch_name \in ArchNames
  /\ parameter_register_constraints = X86ParameterConstraints
  /\ return_register_constraints = X86ReturnConstraints
  /\ function \in X86Functions
  /\ fdecl = EmptyDecl
  /\ reserved = <<>>
  /\ arg_i = 0
  /\ reg = NoRegister
  /\ stack_offset = 0
  /\ fatal = "none"
  /\ pc = "construct"

SpecX86_C == InitX86_C /\ [][NextX86_C]_vars

\* C24: constructing X86_C ends without a fatal error for x86, x86 with AVX
\* and x86 with AVX512, with the AVX or AVX512 extension applied to the
\* parameter register constraints respectively, and ends in the fatal
\* "Invalid architecture for X86_C" for every other architecture and only
\* for those.
C24_ConstructorSupportsThreeNames ==
  pc # "construct" =>
    /\ arch_name \in X86Names <=> fatal # kInvalidArchitecture
    /\ arch_name = "x86" =>
         parameter_register_constraints = X86ParameterConstraints
    /\ arch_name = "x86_avx" =>
         parameter_register_constraints
           = ApplyX86Ext(X86ParameterConstraints, "AVX")
    /\ arch_name = "x86_avx512" =>
         parameter_register_constraints
           = ApplyX86Ext(X86ParameterConstraints, "AVX512")

\* ------------------------------------------------------------------------
\* X86_64_SysV
\* ------------------------------------------------------------------------

kCouldNotAssign ==
  "Could not assign type and size constraints in TryRegisterAllocate()"

\* Lines 900-940: the types the switch assigns constraints to. The case of
\* X86_FP80TyID has no break and runs on into the default case, LOG(FATAL).
HasConstraints(t) ==
  getTypeID(t) \in {"IntegerTyID", "FloatTyID", "DoubleTyID", "PointerTyID"}

\* Lines 900-933: type_constraint.
TypeConstraintOf(t) ==
  CASE getTypeID(t) = "IntegerTyID" -> kTypeInt
    [] getTypeID(t) = "FloatTyID"   -> kTypeFloat
    [] getTypeID(t) = "DoubleTyID"  -> kTypeFloat
    [] getTypeID(t) = "PointerTyID" -> kTypeIntegral
    [] OTHER                        -> kTypeIntegral

\* Lines 900-933: size_constraint.
SizeConstraintOf(t) ==
  CASE getTypeID(t) = "IntegerTyID" ->
         IF t = "i64" THEN kMinBit64 ELSE kMinBit32
    [] getTypeID(t) = "FloatTyID"   -> kMinBit32
    [] getTypeID(t) = "DoubleTyID"  -> kMinBit64
    [] getTypeID(t) = "PointerTyID" -> kMinBit64
    [] OTHER                        -> kMinBit80

\* Lines 949-950:
\*   size_constraint & variant.size_constraint &&
\*   type_constraint & variant.type_constraint
Matches(variant, t) ==
  /\ SizeConstraintOf(t) \cap variant.size_constraint # {}
  /\ TypeConstraintOf(t) \cap variant.type_constraint # {}

\* Line 948: the first variant of the constraint that matches, or 0.
FirstVariant(constraint, t) ==
  LET js == {j \in DOMAIN constraint.variants : Matches(constraint.variants[j], t)}
  IN  IF js = {} THEN 0 ELSE CHOOSE j \in js : \A k \in js : j <= k

\* Lines 942-957: the first slot that is not reserved and has a matching
\* variant, or 0.
FirstSlot(t, res, constraints) ==
  LET is == {i \in DOMAIN constraints :
               ~res[i] /\ FirstVariant(constraints[i], t) # 0}
  IN  IF is = {} THEN 0 ELSE CHOOSE i \in is : \A k \in is : i <= k

\* A call that returns the register and forgets to reserve its slot.
TryRegisterAllocate_unreserved(t, res, constraints) ==
  IF ~HasConstraints(t) THEN [reg |-> Aborted, reserved |-> res]
  ELSE LET i == FirstSlot(t, res, constraints)
       IN  IF i = 0 THEN [reg |-> Nullptr, reserved |-> res]
           ELSE [reg |-> constraints[i].variants[
                           FirstVariant(constraints[i], t)].register_name,
                 reserved |-> res]

\* Lines 894-959, TryRegisterAllocate: the register returned and `reserved`
\* after the call.
TryRegisterAllocate(t, res, constraints) ==
  IF ~HasConstraints(t) THEN [reg |-> Aborted, reserved |-> res]
  ELSE LET i == FirstSlot(t, res, constraints)
       IN  IF i = 0 THEN [reg |-> Nullptr, reserved |-> res]
           ELSE [reg |-> constraints[i].variants[
                           FirstVariant(constraints[i], t)].register_name,
                 reserved |-> [res EXCEPT ![i] = TRUE]]

\* std::vector<bool>(constraints.size(), false)
Unreserved(constraints) == [i \in DOMAIN constraints |-> FALSE]

\* What no step of the X86_64_SysV binding changes.
SysVFrame ==
  UNCHANGED <<stack_cells, builder_vars, scanner_vars, block_vars, nearby,
              arch_name, parameter_register_constraints,
              return_register_constraints, function>>

\* Lines 1035-1045: BindParameters before its loop.
BeginParameters ==
  /\ reserved' = Unreserved(parameter_register_constraints)
  /\ arg_i' = 1
  /\ stack_offset' = 16
  /\ reg' = NoRegister
  /\ pc' = "sysv_params"

\* Lines 986-1033, X86_64_SysV::BindReturnValues, up to the call of
\* TryReturnThroughRegisters (lines 964-968) for a struct.
SysV_BindReturnValues ==
  /\ pc = "sysv_returns"
  /\ LET ret_type == function.ret
         id == getTypeID(ret_type)
     IN  CASE id \in {"IntegerTyID", "PointerTyID"} ->
                /\ fdecl' = [fdecl EXCEPT
                     !.returns = <<RegDecl(ret_type, <<"RAX", 0>>)>>]
                /\ BeginParameters
                /\ UNCHANGED fatal
           [] id = "FloatTyID" ->
                /\ fdecl' = [fdecl EXCEPT
                     !.returns = <<RegDecl(ret_type, <<"XMM", 0>>)>>]
                /\ BeginParameters
                /\ UNCHANGED fatal
           [] id = "StructTyID" ->
                /\ reserved' = Unreserved(return_register_constraints)
                /\ arg_i' = 1
                /\ pc' = "sysv_elements"
                /\ UNCHANGED <<fdecl, reg, stack_offset, fatal>>
           [] OTHER ->
                /\ fatal' = kUnknownReturnType
                /\ pc' = "exit"
                /\ UNCHANGED <<fdecl, reserved, arg_i, reg, stack_offset>>
  /\ SysVFrame

\* Lines 969-981: one iteration of the loop of TryReturnThroughRegisters.
SysV_ReturnElement ==
  /\ pc = "sysv_elements"
  /\ arg_i <= Len(function.elements)
  /\ LET t == function.elements[arg_i]
         r == TryRegisterAllocate(t, reserved, return_register_constraints)
     IN  /\ reg' = r.reg
         /\ reserved' = r.reserved
         /\ CASE r.reg = Aborted ->
                   /\ fatal' = kCouldNotAssign
                   /\ pc' = "fatal"
                   /\ UNCHANGED <<fdecl, arg_i>>
              [] r.reg = Nullptr ->
                   /\ pc' = "sysv_unmapped"
                   /\ UNCHANGED <<fdecl, arg_i, fatal>>
              [] OTHER ->
                   /\ fdecl' = [fdecl EXCEPT
                        !.returns = Append(@, RegDecl(t, r.reg))]
                   /\ arg_i' = arg_i + 1
                   /\ UNCHANGED <<pc, fatal>>
  /\ UNCHANGED stack_offset
  /\ SysVFrame

\* Lines 983 and 1013-1015: every element has a register.
SysV_ReturnMapped ==
  /\ pc = "sysv_elements"
  /\ arg_i > Len(function.elements)
  /\ BeginParameters
  /\ UNCHANGED <<fdecl, fatal>>
  /\ SysVFrame

\* Lines 978 and 1016-1021: the struct cannot be split; the pointer to the
\* return value is in RAX.
SysV_ReturnThroughMemory ==
  /\ pc = "sysv_unmapped"
  /\ fdecl' = [fdecl EXCEPT
       !.returns = <<RegDecl(function.ret, <<"RAX", 0>>)>>]
  /\ BeginParameters
  /\ UNCHANGED fatal
  /\ SysVFrame

\* Lines 1047-1070: one iteration of the loop of BindParameters.
SysV_BindParameter ==
  /\ pc = "sysv_params"
  /\ arg_i <= Len(function.args)
  /\ LET t == function.args[arg_i]
         r == TryRegisterAllocate(t, reserved, parameter_register_constraints)
     IN  /\ reg' = r.reg
         /\ reserved' = r.reserved
         /\ CASE r.reg = Aborted ->
                   /\ fatal' = kCouldNotAssign
                   /\ pc' = "fatal"
                   /\ UNCHANGED <<fdecl, arg_i, stack_offset>>
              [] r.reg = Nullptr ->
                   /\ fdecl' = [fdecl EXCEPT
                        !.params = Append(@, MemDecl(t, <<"RSP", 0>>, stack_offset))]
                   /\ stack_offset' = stack_offset + getTypeAllocSize(t)
                   /\ arg_i' = arg_i + 1
                   /\ UNCHANGED <<pc, fatal>>
              [] OTHER ->
                   /\ fdecl' = [fdecl EXCEPT
                        !.params = Append(@, RegDecl(t, r.reg))]
                   /\ arg_i' = arg_i + 1
                   /\ UNCHANGED <<pc, stack_offset, fatal>>
  /\ SysVFrame

\* Lines 1072 and 1075-1087: BindParameters returns; BindReturnStackPointer.
SysV_BindReturnStackPointer ==
  /\ pc = "sysv_params"
  /\ arg_i > Len(function.args)
  /\ fdecl' = [fdecl EXCEPT !.return_stack_pointer = <<"RSP", 0>>,
                            !.return_stack_pointer_offset = 8]
  /\ pc' = "bound"
  /\ UNCHANGED <<reserved, arg_i, reg, stack_offset, fatal>>
  /\ SysVFrame

NextSysV ==
  \/ SysV_BindReturnValues
  \/ SysV_ReturnElement
  \/ SysV_ReturnMapped
  \/ SysV_ReturnThroughMemory
  \/ SysV_BindParameter
  \/ SysV_BindReturnStackPointer

\* Register constraints handed to TryRegisterAllocate: general-purpose and
\* vector registers in either order.
ParameterTables ==
  { << GprConstraint("EDI", "RDI"), GprConstraint("ESI", "RSI"),
       XmmConstraint(0) >>,
    << XmmConstraint(0), GprConstraint("EDI", "RDI") >> }
ReturnTables ==
  { << GprConstraint("EAX", "RAX"), XmmConstraint(0) >>,
    << GprConstraint("EAX", "RAX"), GprConstraint("EDX", "RDX"),
       XmmConstraint(0), XmmConstraint(1) >> }

\* The types of arguments and struct elements.
ArgTypes == {"i32", "i64", "float", "double", "ptr", "x86_fp80"}

\* Functions of up to MaxParams parameters; a struct return type has up to
\* MaxElements elements.
MaxElements == 2
SysVFunctions ==
  UNION {
    UNION {
      {[ret |-> r, args |-> a,
        elements |-> IF r = "struct" THEN e ELSE <<>>] :
         r \in {"i64", "ptr", "float", "double", "struct"}} :
      e \in UNION {[1..n -> ArgTypes] : n \in 1..MaxElements}} :
    a \in UNION {[1..n -> ArgTypes] : n \in 0..MaxParams}}

InitSysV ==
  /\ stack_cells = [f \in Funcs |-> <<>>]
  /\ BuilderIdle
  /\ ScannerIdle
  /\ ModuleIdle
  /\ nearby = {}
  /\ arch_name = "amd64"
  /\ parameter_register_constraints \in ParameterTables
  /\ return_register_constraints \in ReturnTables
  /\ function \in SysVFunctions
  /\ fdecl = EmptyDecl
  /\ reserved = <<>>
  /\ arg_i = 0
  /\ reg = NoRegister
  /\ stack_offset = 0
  /\ fatal = "none"
  /\ pc = "sysv_returns"

SpecSysV == InitSysV /\ [][NextSysV]_vars

\* A call of TryRegisterAllocate is the next step: its argument type and
\* the constraints it is given.
Called ==
  \/ pc = "sysv_elements" /\ arg_i <= Len(function.elements)
  \/ pc = "sysv_params" /\ arg_i <= Len(function.args)
CalledType ==
  IF pc = "sysv_elements" THEN function.elements[arg_i] ELSE function.args[arg_i]
CalledConstraints ==
  IF pc = "sysv_elements" THEN return_register_constraints
  ELSE parameter_register_constraints

\* The slot of the constraints that owns the register.
SlotsOf(r, constraints) ==
  {i \in DOMAIN constraints :
     \E j \in DOMAIN constraints[i].variants :
       constraints[i].variants[j].register_name = r}

\* No two of the declarations hold registers of one slot.
HandedOutOnce(decls, constraints) ==
  \A p, q \in DOMAIN decls :
    p < q => SlotsOf(decls[p].reg, constraints)
               \cap SlotsOf(decls[q].reg, constraints) = {}

\* Some slot that is not reserved has a variant for the type.
Possible(t, res, constraints) ==
  \E i \in DOMAIN constraints :
    /\ ~res[i]
    /\ \E j \in DOMAIN constraints[i].variants :
         Matches(constraints[i].variants[j], t)

====
